---- MODULE Spec2Model ----
(***************************************************************************)
(* A model of the ingress-doperator merge / ownership / reconciliation     *)
(* engine: the Reference Grant lifecycle (internal/utils), the Gateway     *)
(* spec merge (internal/translator), the sharded reconcile cache and the   *)
(* reenabler sweep (cmd/reenabler).                                        *)
(***************************************************************************)
EXTENDS Integers, Sequences, FiniteSets, TLC

VARIABLES
    ingressStore,   \* the declarations of the store: identity -> "absent" | "tls" | "plain"
    grants,         \* the Reference Grant of each namespace (name is fixed: ReferenceGrantName)
    nextRV,         \* the store's resourceVersion counter
    passes,         \* the calls of EnsureReferenceGrants / CleanupReferenceGrantIfNeeded
    queue,          \* triggers of the work queue not yet picked up
    extCount,       \* external creations and deletions so far
    mode            \* which entry points the environment uses

grantVars == <<ingressStore, grants, nextRV, passes, queue, extCount, mode>>

VARIABLES
    reParams,       \* runReenabler's resolved booleans
    reStore,        \* the Ingresses of the store, by name: [present, obj]
    reRoutes,       \* the HTTPRoutes of the store
    reGateways,     \* the Gateways of the store
    reFilters,      \* the automatic SnippetsFilter of each Ingress
    reRun           \* the reenabler run: position, listing, log, result

reVars == <<reParams, reStore, reRoutes, reGateways, reFilters, reRun>>

VARIABLES
    gwStore,        \* the shared Gateway of the store: [gateway, rv]
    gwPasses,       \* the reconciliation passes that merge into the shared Gateway
    gwCall          \* one call of MergeGatewaySpec and RemoveIngressListeners

gwVars == <<gwStore, gwPasses, gwCall>>

VARIABLES
    cacheStore,     \* the backing ConfigMap of each shard: [exists, data]
    cacheRun        \* one save / load sequence: position, arguments, result

cacheVars == <<cacheStore, cacheRun>>

vars == <<grantVars, reVars, gwVars, cacheVars>>

\* what the actions of one component leave alone
nonGrantVars == <<reVars, gwVars, cacheVars>>
nonReVars == <<grantVars, gwVars, cacheVars>>
nonGwVars == <<grantVars, reVars, cacheVars>>
nonCacheVars == <<grantVars, reVars, gwVars>>

\* The parts of the store a specification does not use.
IdleGrants ==
    /\ ingressStore = <<>> /\ grants = <<>> /\ nextRV = 0 /\ passes = <<>>
    /\ queue = {} /\ extCount = 0 /\ mode = "idle"

IdleReenabler ==
    /\ reParams = <<>> /\ reStore = <<>> /\ reRoutes = {} /\ reGateways = {}
    /\ reFilters = <<>> /\ reRun = <<>>

IdleGateway == gwStore = <<>> /\ gwPasses = <<>> /\ gwCall = <<>>

IdleCache == cacheStore = <<>> /\ cacheRun = <<>>

IdleNonGrant == IdleReenabler /\ IdleGateway /\ IdleCache

IdleNonReenabler == IdleGrants /\ IdleGateway /\ IdleCache

IdleNonGateway == IdleGrants /\ IdleReenabler /\ IdleCache

IdleNonCache == IdleGrants /\ IdleReenabler /\ IdleGateway

(***************************************************************************)
(* Bounds                                                                  *)
(***************************************************************************)
MaxPasses == 2
MaxExternal == 2

(***************************************************************************)
(* Ownership guard (internal/utils/resource.go)                            *)
(***************************************************************************)
ManagedByValue == "ingress-controller"
NoAnnotation == "<absent>"

IsManagedByUs_AnyOwner(obj) == obj.managedBy # NoAnnotation

IsManagedByUs(obj) == obj.managedBy = ManagedByValue

(***************************************************************************)
(* The store: declarations and Reference Grants                            *)
(***************************************************************************)
Namespaces == {"ns1", "ns2"}
DeclIds == {<<"ns1", "a">>, <<"ns1", "b">>, <<"ns2", "a">>}

NoGrant == [exists |-> FALSE, managedBy |-> NoAnnotation, spec |-> "", rv |-> 0]

\* translator.CreateReferenceGrant(namespace): the fixed template, carrying
\* the identity marker.
CreateReferenceGrant(ns) ==
    [exists |-> TRUE, managedBy |-> ManagedByValue, spec |-> "template", rv |-> 0]

\* c.List(ctx, &ingressList, client.InNamespace(namespace))
ListIngresses(store, ns) == {d \in DeclIds : d[1] = ns /\ store[d] # "absent"}

\* len(ingress.Spec.TLS) > 0 for some listed Ingress
AnyIngressHasTLS(store, ns) == \E d \in ListIngresses(store, ns) : store[d] = "tls"

\* trans.GetNamespacesWithTLS(ingresses)
GetNamespacesWithTLS(store) == {ns \in Namespaces : AnyIngressHasTLS(store, ns)}

\* a grant someone else owns: the identity annotation is absent or has another value
IsForeign(g) == g.exists /\ g.managedBy # ManagedByValue

Running(p) == passes[p].pc # "done"

NoPassRunning == \A p \in 1..Len(passes) : ~Running(p)

CanStartPass ==
    /\ Len(passes) < MaxPasses
    /\ mode = "sequential" => NoPassRunning

\* A call: its arguments (ingresses for ensure, ns for cleanup) and its locals.
NewPass(kind, ns, ingresses) ==
    [kind |-> kind, pc |-> "start", ns |-> ns, ingresses |-> ingresses, todo |-> {},
     existing |-> NoGrant, err |-> "", log |-> {}]

(***************************************************************************)
(* EnsureReferenceGrants / ApplyReferenceGrant                             *)
(***************************************************************************)
\* EnsureReferenceGrants: namespacesWithTLS of the Ingresses it is given
EnsureReferenceGrants_Start(p) ==
    /\ passes[p].kind = "ensure" /\ passes[p].pc = "start"
    /\ LET todo == GetNamespacesWithTLS(passes[p].ingresses)
       IN passes' = [passes EXCEPT ![p].todo = todo,
                                   ![p].pc = IF todo = {} THEN "done" ELSE "apply_get"]
    /\ UNCHANGED <<ingressStore, grants, nextRV, queue, extCount, mode, nonGrantVars>>

\* ApplyReferenceGrant: c.Get of the namespace's grant
ApplyReferenceGrant_Get(p) ==
    /\ passes[p].kind = "ensure" /\ passes[p].pc = "apply_get"
    /\ \E ns \in passes[p].todo :
          passes' = [passes EXCEPT ![p].ns = ns,
                                   ![p].existing = grants[ns],
                                   ![p].pc = "apply_write"]
    /\ UNCHANGED <<ingressStore, grants, nextRV, queue, extCount, mode, nonGrantVars>>

ApplyNext(p, what) ==
    LET rest == passes[p].todo \ {passes[p].ns}
    IN [passes EXCEPT ![p].todo = rest,
                      ![p].log = @ \cup {<<passes[p].ns, what>>},
                      ![p].pc = IF rest = {} THEN "done" ELSE "apply_get"]

ApplyFail(p, why) ==
    [passes EXCEPT ![p].err = why, ![p].pc = "done"]

\* ApplyReferenceGrant after the Get: Create, Update or skip
ApplyReferenceGrant_Write(p) ==
    /\ passes[p].kind = "ensure" /\ passes[p].pc = "apply_write"
    /\ LET ns == passes[p].ns
           existing == passes[p].existing
       IN IF ~existing.exists
          THEN \* apierrors.IsNotFound(err): c.Create
               IF grants[ns].exists
               THEN /\ passes' = ApplyFail(p, "failed to create ReferenceGrant")
                    /\ UNCHANGED <<grants, nextRV>>
               ELSE /\ grants' = [grants EXCEPT
                                     ![ns] = [CreateReferenceGrant(ns) EXCEPT !.rv = nextRV]]
                    /\ nextRV' = nextRV + 1
                    /\ passes' = ApplyNext(p, "create")
          ELSE IF IsManagedByUs(existing)
          THEN \* existing.Spec = refGrant.Spec; c.Update
               IF ~grants[ns].exists \/ grants[ns].rv # existing.rv
               THEN /\ passes' = ApplyFail(p, "failed to update ReferenceGrant")
                    /\ UNCHANGED <<grants, nextRV>>
               ELSE /\ grants' = [grants EXCEPT
                                     ![ns] = [existing EXCEPT
                                                 !.spec = CreateReferenceGrant(ns).spec,
                                                 !.rv = nextRV]]
                    /\ nextRV' = nextRV + 1
                    /\ passes' = ApplyNext(p, "update")
          ELSE /\ passes' = ApplyNext(p, "skip")
               /\ UNCHANGED <<grants, nextRV>>
    /\ UNCHANGED <<ingressStore, queue, extCount, mode, nonGrantVars>>

(***************************************************************************)
(* CleanupReferenceGrantIfNeeded                                           *)
(***************************************************************************)
CleanupDone(p, what) ==
    [passes EXCEPT ![p].log = @ \cup {<<passes[p].ns, what>>}, ![p].pc = "done"]

CleanupReferenceGrantIfNeeded_List_NoTLSCheck(p) ==
    /\ passes[p].kind = "cleanup" /\ passes[p].pc = "start"
    /\ passes' = [passes EXCEPT ![p].pc = "cleanup_get"]
    /\ UNCHANGED <<ingressStore, grants, nextRV, queue, extCount, mode, nonGrantVars>>

\* c.List of the namespace's Ingresses and the TLS check
CleanupReferenceGrantIfNeeded_List(p) ==
    /\ passes[p].kind = "cleanup" /\ passes[p].pc = "start"
    /\ passes' = IF AnyIngressHasTLS(ingressStore, passes[p].ns)
                 THEN CleanupDone(p, "still needed")
                 ELSE [passes EXCEPT ![p].pc = "cleanup_get"]
    /\ UNCHANGED <<ingressStore, grants, nextRV, queue, extCount, mode, nonGrantVars>>

\* c.Get of the grant
CleanupReferenceGrantIfNeeded_Get(p) ==
    /\ passes[p].kind = "cleanup" /\ passes[p].pc = "cleanup_get"
    /\ LET g == grants[passes[p].ns]
       IN passes' = IF ~g.exists
                    THEN CleanupDone(p, "already deleted")
                    ELSE [passes EXCEPT ![p].existing = g, ![p].pc = "cleanup_delete"]
    /\ UNCHANGED <<ingressStore, grants, nextRV, queue, extCount, mode, nonGrantVars>>

\* IsManagedByUs(refGrant): c.Delete (by name, NotFound tolerated), else skip
CleanupReferenceGrantIfNeeded_Delete(p) ==
    /\ passes[p].kind = "cleanup" /\ passes[p].pc = "cleanup_delete"
    /\ IF IsManagedByUs(passes[p].existing)
       THEN /\ grants' = [grants EXCEPT ![passes[p].ns] = NoGrant]
            /\ passes' = CleanupDone(p, "delete")
       ELSE /\ passes' = CleanupDone(p, "skip deletion")
            /\ UNCHANGED grants
    /\ UNCHANGED <<ingressStore, nextRV, queue, extCount, mode, nonGrantVars>>

(***************************************************************************)
(* The callers: the work queue's passes, or direct calls                   *)
(***************************************************************************)
\* An external actor creates a declaration; the work queue gets an ensure pass.
ExternalCreate(d, kind) ==
    /\ extCount < MaxExternal
    /\ mode = "sequential" => NoPassRunning
    /\ ingressStore[d] = "absent"
    /\ ingressStore' = [ingressStore EXCEPT ![d] = kind]
    /\ extCount' = extCount + 1
    /\ queue' = IF mode = "queue"
                THEN queue \cup {[id |-> extCount, kind |-> "ensure", ns |-> ""]}
                ELSE queue
    /\ UNCHANGED <<grants, nextRV, passes, mode, nonGrantVars>>

\* An external actor deletes a declaration; the work queue gets a cleanup pass.
ExternalDelete(d) ==
    /\ extCount < MaxExternal
    /\ mode = "sequential" => NoPassRunning
    /\ ingressStore[d] # "absent"
    /\ ingressStore' = [ingressStore EXCEPT ![d] = "absent"]
    /\ extCount' = extCount + 1
    /\ queue' = IF mode = "queue"
                THEN queue \cup {[id |-> extCount, kind |-> "cleanup", ns |-> d[1]]}
                ELSE queue
    /\ UNCHANGED <<grants, nextRV, passes, mode, nonGrantVars>>

\* A worker picks a trigger up and starts its pass.
StartTriggeredPass(t) ==
    /\ mode = "queue"
    /\ t \in queue
    /\ queue' = queue \ {t}
    /\ passes' = Append(passes, NewPass(t.kind, t.ns, ingressStore))
    /\ UNCHANGED <<ingressStore, grants, nextRV, extCount, mode, nonGrantVars>>

\* A direct call of EnsureReferenceGrants.
StartEnsure ==
    /\ mode # "queue"
    /\ CanStartPass
    /\ passes' = Append(passes, NewPass("ensure", "", ingressStore))
    /\ UNCHANGED <<ingressStore, grants, nextRV, queue, extCount, mode, nonGrantVars>>

\* A direct call of CleanupReferenceGrantIfNeeded(namespace).
StartCleanup(ns) ==
    /\ mode # "queue"
    /\ CanStartPass
    /\ passes' = Append(passes, NewPass("cleanup", ns, ingressStore))
    /\ UNCHANGED <<ingressStore, grants, nextRV, queue, extCount, mode, nonGrantVars>>

PassStep(p) ==
    \/ EnsureReferenceGrants_Start(p)
    \/ ApplyReferenceGrant_Get(p)
    \/ ApplyReferenceGrant_Write(p)
    \/ CleanupReferenceGrantIfNeeded_List(p)
    \/ CleanupReferenceGrantIfNeeded_Get(p)
    \/ CleanupReferenceGrantIfNeeded_Delete(p)

GrantStoreStates ==
    {NoGrant,
     [exists |-> TRUE, managedBy |-> ManagedByValue, spec |-> "old template", rv |-> 0],
     [exists |-> TRUE, managedBy |-> NoAnnotation, spec |-> "manual", rv |-> 0],
     [exists |-> TRUE, managedBy |-> "someone-else", spec |-> "manual", rv |-> 0]}

\* the components the Reference Grant specifications leave idle

InitGrantCommon ==
    /\ IdleNonGrant
    /\ ingressStore \in [DeclIds -> {"absent", "tls", "plain"}]
    /\ nextRV = 1
    /\ passes = <<>>
    /\ queue = {}
    /\ extCount = 0

\* Direct calls in any interleaving, on any store.
InitCalls ==
    /\ mode = "calls"
    /\ grants \in [Namespaces -> GrantStoreStates]
    /\ InitGrantCommon

NextCalls ==
    \/ \E p \in 1..Len(passes) : PassStep(p)
    \/ StartEnsure
    \/ \E ns \in Namespaces : StartCleanup(ns)

SpecCalls == InitCalls /\ [][NextCalls]_vars

\* The work queue: every external creation triggers an ensure pass, every
\* external deletion a cleanup pass; passes of different declarations interleave.
\* The store starts converged: an owned grant exactly where a TLS declaration is.
InitQueue ==
    /\ mode = "queue"
    /\ grants \in [Namespaces -> GrantStoreStates]
    /\ InitGrantCommon
    /\ \A ns \in Namespaces :
          ~IsForeign(grants[ns]) => (grants[ns].exists <=> AnyIngressHasTLS(ingressStore, ns))

NextQueue ==
    \/ \E p \in 1..Len(passes) : PassStep(p)
    \/ \E t \in queue : StartTriggeredPass(t)
    \/ \E d \in DeclIds : ExternalCreate(d, "tls") \/ ExternalCreate(d, "plain") \/ ExternalDelete(d)

SpecQueue == InitQueue /\ [][NextQueue]_vars

\* One call at a time on a store that starts with no Reference Grant.
InitSeq ==
    /\ mode = "sequential"
    /\ grants = [ns \in Namespaces |-> NoGrant]
    /\ InitGrantCommon

NextSeq ==
    \/ NextCalls
    \/ \E d \in DeclIds : ExternalCreate(d, "tls") \/ ExternalCreate(d, "plain") \/ ExternalDelete(d)

SpecSeq == InitSeq /\ [][NextSeq]_vars

(***************************************************************************)
(* C1: under any interleaving of EnsureReferenceGrants / ApplyReferenceGrant *)
(* / CleanupReferenceGrantIfNeeded calls, a Reference Grant without this    *)
(* engine's identity marker (annotation absent or with another value) is    *)
(* never updated and never deleted, and no call fails on its namespace.     *)
(***************************************************************************)
ForeignGrantKept ==
    \A ns \in Namespaces : IsForeign(grants[ns]) => grants'[ns] = grants[ns]

NoErrorOnForeignGrant ==
    \A p \in 1..Len(passes) :
        passes[p].err # "" => ~IsForeign(grants[passes[p].ns])

C1_ForeignGrantNeverTouched == [][ForeignGrantKept]_vars /\ []NoErrorOnForeignGrant

\* an apply has met a grant marked by someone else and a cleanup a grant with
\* no marker, and both skipped it
C1_Witness ==
    \E p, q \in 1..Len(passes) : \E ns, ns2 \in Namespaces :
        /\ <<ns, "skip">> \in passes[p].log
        /\ grants[ns].exists /\ grants[ns].managedBy = "someone-else"
        /\ <<ns2, "skip deletion">> \in passes[q].log
        /\ grants[ns2].exists /\ grants[ns2].managedBy = NoAnnotation


(***************************************************************************)
(* C8: under any interleaving of triggered ensure and cleanup passes with   *)
(* the external creations and deletions, once every triggered pass has      *)
(* completed without error, each namespace whose grant is not someone       *)
(* else's has a Reference Grant iff it holds a TLS-bearing declaration.     *)
(***************************************************************************)
AllPassesCompleted ==
    /\ queue = {}
    /\ \A p \in 1..Len(passes) : passes[p].pc = "done" /\ passes[p].err = ""

C8_GrantIffTLSDeclaration ==
    AllPassesCompleted =>
        \A ns \in Namespaces :
            ~IsForeign(grants[ns]) =>
                (grants[ns].exists <=> AnyIngressHasTLS(ingressStore, ns))

(***************************************************************************)
(* C9: from a store with no Reference Grant, EnsureReferenceGrants creates  *)
(* exactly one (owned, template) grant in each namespace holding a TLS      *)
(* declaration among those it is given and none elsewhere; a cleanup call   *)
(* that ends with no TLS declaration left in its namespace leaves no grant  *)
(* there; and no step removes the grant of a namespace that still holds a   *)
(* TLS declaration.                                                         *)
(***************************************************************************)
EnsureCreatesExactly ==
    (Len(passes) = 1 /\ passes[1].kind = "ensure" /\ passes[1].pc = "done") =>
        \A ns \in Namespaces :
            IF AnyIngressHasTLS(passes[1].ingresses, ns)
            THEN grants[ns].exists /\ IsManagedByUs(grants[ns])
                 /\ grants[ns].spec = CreateReferenceGrant(ns).spec
            ELSE ~grants[ns].exists

CleanupDeletesAfterLast ==
    \A p \in 1..Len(passes) :
        (/\ passes[p].kind = "cleanup"
         /\ passes[p].pc # "done" /\ passes'[p].pc = "done"
         /\ ~AnyIngressHasTLS(ingressStore, passes[p].ns))
        => ~grants'[passes[p].ns].exists

GrantKeptWhileTLS ==
    \A ns \in Namespaces :
        (AnyIngressHasTLS(ingressStore, ns) /\ grants[ns].exists) => grants'[ns].exists

C9_EnsureThenCleanup ==
    /\ []EnsureCreatesExactly
    /\ [][CleanupDeletesAfterLast /\ GrantKeptWhileTLS]_vars

\* ensure created the grant of a namespace, its last TLS declaration was
\* removed, and cleanup deleted the grant
C9_Witness ==
    \E ns \in Namespaces :
        /\ Len(passes) = 2
        /\ <<ns, "create">> \in passes[1].log
        /\ passes[2].kind = "cleanup" /\ <<ns, "delete">> \in passes[2].log
        /\ ~grants[ns].exists

(***************************************************************************)
(* The reenabler (cmd/reenabler/main.go)                                   *)
(***************************************************************************)
\* annotation keys and values of internal/controller
IngressDisabledAnnotation == "disabled"
IngressClassAnnotation == "class"
OriginalIngressClassNameAnnotation == "origClassName"
OriginalIngressClassAnnotation == "origClass"
ExternalDNSHostnameAnnotation == "hostname"
ExternalDNSIngressHostnameSource == "hostnameSource"
OriginalExternalDNSHostname == "origHostname"
OriginalExternalDNSIngressHostnameSource == "origHostnameSource"
DisabledIngressClassName == "ingress-doperator-disabled"
IngressDisabledReasonNormal == "normal"
IngressDisabledReasonExternalDNS == "external-dns"

\* a nil *string (Spec.IngressClassName)
Nil == "<nil>"

\* annotations[k]: the value, "" for a missing key
Get(annotations, k) == IF annotations[k] = NoAnnotation THEN "" ELSE annotations[k]

\* _, ok := annotations[k]
Has(annotations, k) == annotations[k] # NoAnnotation

Delete_SetEmpty(annotations, k) == [annotations EXCEPT ![k] = ""]

\* delete(annotations, k)
Delete(annotations, k) == [annotations EXCEPT ![k] = NoAnnotation]

isDisabledIngress(ingress) ==
    IF Get(ingress.annotations, IngressDisabledAnnotation) = ""
    THEN FALSE
    ELSE IF ingress.className # Nil /\ ingress.className = DisabledIngressClassName
    THEN TRUE
    ELSE Get(ingress.annotations, IngressClassAnnotation) = DisabledIngressClassName

needsExternalDNSRestore(ingress) ==
    \/ Has(ingress.annotations, OriginalExternalDNSHostname)
    \/ Has(ingress.annotations, OriginalExternalDNSIngressHostnameSource)
    \/ Has(ingress.annotations, ExternalDNSIngressHostnameSource)

shouldDeleteIngress_AnyReason(ingress) ==
    LET disabledValue == Get(ingress.annotations, IngressDisabledAnnotation)
    IN IF disabledValue = ""
       THEN FALSE
       ELSE IF disabledValue = IngressDisabledReasonExternalDNS
       THEN Get(ingress.annotations, ExternalDNSIngressHostnameSource) # ""
       ELSE isDisabledIngress(ingress)

shouldDeleteIngress(ingress) ==
    LET disabledValue == Get(ingress.annotations, IngressDisabledAnnotation)
    IN IF disabledValue = ""
       THEN FALSE
       ELSE IF disabledValue = IngressDisabledReasonNormal
       THEN isDisabledIngress(ingress)
       ELSE IF disabledValue = IngressDisabledReasonExternalDNS
       THEN IF Get(ingress.annotations, ExternalDNSIngressHostnameSource) = ""
            THEN FALSE
            ELSE IF Has(ingress.annotations, OriginalExternalDNSHostname)
            THEN TRUE
            ELSE Has(ingress.annotations, OriginalExternalDNSIngressHostnameSource)
       ELSE FALSE

\* manager.GetHTTPRoutesWithPrefix(ctx, ingress.Namespace, ingress.Name)
GetHTTPRoutesWithPrefix(routes, name) == {r \in routes : r.ingress = name}

\* utils.IsManagedByUsForIngress(&httpRoute, ingress.Namespace, ingress.Name)
IsManagedByUsForIngress(route, name) == route.managed /\ route.ingress = name

\* utils.IsManagedByUsWithIngress(gateway, ingress.Namespace, ingress.Name)
IsManagedByUsWithIngress(gateway, name) == gateway.managed /\ name \in gateway.sources

hasManagedResources_RouteOnly(routes, gateways, name, io) ==
    LET hasRoute == \E r \in GetHTTPRoutesWithPrefix(routes, name) :
                        IsManagedByUsForIngress(r, name)
    IN [hasRoute |-> hasRoute /\ io # "routes fail",
        hasGateway |-> hasRoute /\ io # "routes fail",
        err |-> io = "routes fail"]

\* (hasRoute, hasGateway, err); io says which store read fails, if any
hasManagedResources(routes, gateways, name, io) ==
    IF io = "routes fail"
    THEN [hasRoute |-> FALSE, hasGateway |-> FALSE, err |-> TRUE]
    ELSE LET hasRoute == \E r \in GetHTTPRoutesWithPrefix(routes, name) :
                             IsManagedByUsForIngress(r, name)
         IN IF ~hasRoute
            THEN [hasRoute |-> FALSE, hasGateway |-> FALSE, err |-> FALSE]
            ELSE IF io = "gateways fail"
            THEN [hasRoute |-> FALSE, hasGateway |-> FALSE, err |-> TRUE]
            ELSE IF \E g \in gateways : IsManagedByUsWithIngress(g, name)
            THEN [hasRoute |-> TRUE, hasGateway |-> TRUE, err |-> FALSE]
            ELSE [hasRoute |-> hasRoute, hasGateway |-> FALSE, err |-> FALSE]

\* (ok, reason, err)
checkDeleteEligibility(routes, gateways, name, ingress, io) ==
    IF Get(ingress.annotations, IngressDisabledAnnotation) = ""
    THEN [ok |-> FALSE, reason |-> "missing ingress-doperator disabled annotation",
          err |-> FALSE]
    ELSE IF ~shouldDeleteIngress(ingress)
    THEN [ok |-> FALSE, reason |-> "disabled annotation does not satisfy delete criteria",
          err |-> FALSE]
    ELSE LET has == hasManagedResources(routes, gateways, name, io)
         IN IF has.err
            THEN [ok |-> FALSE, reason |-> "", err |-> TRUE]
            ELSE IF ~has.hasRoute /\ ~has.hasGateway
            THEN [ok |-> FALSE, reason |-> "missing managed HTTPRoute and Gateway",
                  err |-> FALSE]
            ELSE IF ~has.hasRoute
            THEN [ok |-> FALSE, reason |-> "missing managed HTTPRoute", err |-> FALSE]
            ELSE IF ~has.hasGateway
            THEN [ok |-> FALSE, reason |-> "missing managed Gateway", err |-> FALSE]
            ELSE [ok |-> TRUE, reason |-> "", err |-> FALSE]

(***************************************************************************)
(* checkDeleteEligibility and shouldDeleteIngress on every Ingress and      *)
(* every store of derived objects                                           *)
(***************************************************************************)
EligibilityIngresses ==
    [className : {Nil, DisabledIngressClassName, "nginx"},
     annotations :
        [disabled : {NoAnnotation, "", IngressDisabledReasonNormal,
                     IngressDisabledReasonExternalDNS, "manual"},
         class : {NoAnnotation, DisabledIngressClassName, "nginx"},
         origClassName : {NoAnnotation},
         origClass : {NoAnnotation},
         hostname : {NoAnnotation},
         hostnameSource : {NoAnnotation, "", "defined-hosts-only"},
         origHostname : {NoAnnotation, "", "a.example.com"},
         origHostnameSource : {NoAnnotation, "", "annotation-only"}]]

EligibilityRoutes ==
    SUBSET {[ingress |-> "web", managed |-> TRUE], [ingress |-> "web", managed |-> FALSE],
            [ingress |-> "api", managed |-> TRUE]}

EligibilityGateways ==
    SUBSET {[managed |-> TRUE, sources |-> {"web", "api"}],
            [managed |-> FALSE, sources |-> {"web"}],
            [managed |-> TRUE, sources |-> {"api"}]}

InitEligibility ==
    /\ IdleNonReenabler
    /\ reParams = <<>>
    /\ reFilters = <<>>
    /\ reStore \in [{"web"} -> [present : {TRUE}, obj : EligibilityIngresses]]
    /\ reRoutes \in EligibilityRoutes
    /\ reGateways \in EligibilityGateways
    /\ reRun = [pc |-> "call"]

\* one call of checkDeleteEligibility(ctx, cli, manager, ingress)
CheckDeleteEligibility_Call(io) ==
    /\ reRun.pc = "call"
    /\ reRun' = [pc |-> "returned",
                 shouldDelete |-> shouldDeleteIngress(reStore["web"].obj),
                 result |-> checkDeleteEligibility(reRoutes, reGateways, "web",
                                                   reStore["web"].obj, io)]
    /\ UNCHANGED <<reParams, reStore, reRoutes, reGateways, reFilters, nonReVars>>

NextEligibility ==
    \E io \in {"ok", "routes fail", "gateways fail"} : CheckDeleteEligibility_Call(io)

SpecEligibility == InitEligibility /\ [][NextEligibility]_vars

\* the declaration owns a managed route / a managed gateway presence
OwnsManagedRoute(name) == \E r \in reRoutes : r.ingress = name /\ r.managed

OwnsManagedGateway(name) == \E g \in reGateways : g.managed /\ name \in g.sources

Returned == reRun.pc = "returned" /\ ~reRun.result.err

(***************************************************************************)
(* C3: checkDeleteEligibility is eligible only if shouldDelete holds and a  *)
(* managed route and a managed gateway presence both exist; when it is not, *)
(* the reason names exactly the missing piece: route only, gateway only, or *)
(* both, for every combination of route and gateway present or absent.      *)
(***************************************************************************)
C3_ReasonNamesMissingPiece ==
    Returned =>
        LET route == OwnsManagedRoute("web")
            gateway == OwnsManagedGateway("web")
            res == reRun.result
        IN /\ res.ok => (reRun.shouldDelete /\ route /\ gateway)
           /\ (reRun.shouldDelete /\ ~route /\ gateway)
                 => (~res.ok /\ res.reason = "missing managed HTTPRoute")
           /\ (reRun.shouldDelete /\ route /\ ~gateway)
                 => (~res.ok /\ res.reason = "missing managed Gateway")
           /\ (reRun.shouldDelete /\ ~route /\ ~gateway)
                 => (~res.ok /\ res.reason = "missing managed HTTPRoute and Gateway")

(***************************************************************************)
(* C4: shouldDelete is true only when the disabled-reason marker is one of  *)
(* the two known reasons; it is false without the marker, false for any     *)
(* other marker value, and false for the hostname-disable reason when       *)
(* neither shadow hostname annotation is present.                           *)
(***************************************************************************)
C4_ShouldDeleteOnlyKnownReasons ==
    reRun.pc = "returned" =>
        LET a == reStore["web"].obj.annotations
        IN /\ reRun.shouldDelete =>
                a.disabled \in {IngressDisabledReasonNormal, IngressDisabledReasonExternalDNS}
           /\ a.disabled \in {NoAnnotation, ""} => ~reRun.shouldDelete
           /\ (/\ a.disabled = IngressDisabledReasonExternalDNS
               /\ a.origHostname = NoAnnotation
               /\ a.origHostnameSource = NoAnnotation) => ~reRun.shouldDelete

\* shouldDelete answered true for the hostname-disable reason
C4_Witness ==
    /\ reRun.pc = "returned" /\ reRun.shouldDelete
    /\ reStore["web"].obj.annotations.disabled = IngressDisabledReasonExternalDNS
    /\ reStore["web"].obj.annotations.origHostnameSource # NoAnnotation

(***************************************************************************)
(* main's flags and runReenabler's sweep                                    *)
(***************************************************************************)
\* a trackedBool flag as given on the command line
FlagGiven == {"unset", "true", "false"}

Flags ==
    [removeDerivedResources : BOOLEAN, restore : FlagGiven, restoreClass : FlagGiven,
     restoreExternalDNS : FlagGiven, dangerouslyDeleteIngresses : BOOLEAN]

\* main: flag validation and the booleans handed to runReenabler
main(f) ==
    LET restoreValue0 == f.restore # "false"
        classSet == f.restoreClass # "unset"
        dnsSet == f.restoreExternalDNS # "unset"
        exit1 == f.dangerouslyDeleteIngresses
                    /\ (classSet \/ dnsSet \/ f.removeDerivedResources)
        restoreValue1 == IF f.dangerouslyDeleteIngresses THEN FALSE ELSE restoreValue0
        exit2 == f.removeDerivedResources /\ (classSet \/ dnsSet \/ restoreValue1)
        restoreValue2 == IF classSet \/ dnsSet THEN FALSE ELSE restoreValue1
    IN [exit |-> exit1 \/ exit2,
        removeDerivedResources |-> f.removeDerivedResources,
        restoreClass |-> IF restoreValue2 THEN TRUE ELSE f.restoreClass = "true",
        restoreExternalDNS |-> IF restoreValue2 THEN TRUE ELSE f.restoreExternalDNS = "true",
        dangerouslyDeleteIngresses |-> f.dangerouslyDeleteIngresses]

\* the argument lists main can call runReenabler with
MainParams ==
    {[removeDerivedResources |-> main(f).removeDerivedResources,
      restoreClass |-> main(f).restoreClass,
      restoreExternalDNS |-> main(f).restoreExternalDNS,
      dangerouslyDeleteIngresses |-> main(f).dangerouslyDeleteIngresses] :
        f \in {g \in Flags : ~main(g).exit}}

\* restoreIngressState up to the Update: the updated copy and the modified flag
restoreIngressState(ingress, restoreClass, restoreExternalDNS) ==
    LET a0 == ingress.annotations
        originalClassName == Get(a0, OriginalIngressClassNameAnnotation)
        originalClassAnnotation == Get(a0, OriginalIngressClassAnnotation)
        className1 == IF ~restoreClass THEN ingress.className
                      ELSE IF originalClassName # "" THEN originalClassName ELSE Nil
        a1 == IF ~restoreClass THEN a0
              ELSE LET b == IF originalClassAnnotation # ""
                            THEN [a0 EXCEPT ![IngressClassAnnotation] = originalClassAnnotation]
                            ELSE Delete(a0, IngressClassAnnotation)
                   IN Delete(Delete(Delete(b, IngressDisabledAnnotation),
                                    OriginalIngressClassNameAnnotation),
                             OriginalIngressClassAnnotation)
        hasHost == Has(a1, OriginalExternalDNSHostname)
        a2 == IF ~(restoreExternalDNS /\ hasHost) THEN a1
              ELSE LET originalHostname == a1[OriginalExternalDNSHostname]
                       b == IF originalHostname # ""
                            THEN [a1 EXCEPT ![ExternalDNSHostnameAnnotation] = originalHostname]
                            ELSE Delete(a1, ExternalDNSHostnameAnnotation)
                   IN Delete(b, OriginalExternalDNSHostname)
        hasSource == Has(a2, OriginalExternalDNSIngressHostnameSource)
        hasLiveSource == Has(a2, ExternalDNSIngressHostnameSource)
        a3 == IF ~restoreExternalDNS THEN a2
              ELSE IF hasSource
              THEN LET originalSource == a2[OriginalExternalDNSIngressHostnameSource]
                       b == IF originalSource # ""
                            THEN [a2 EXCEPT ![ExternalDNSIngressHostnameSource] = originalSource]
                            ELSE Delete(a2, ExternalDNSIngressHostnameSource)
                   IN Delete(b, OriginalExternalDNSIngressHostnameSource)
              ELSE IF hasLiveSource
              THEN Delete(a2, ExternalDNSIngressHostnameSource)
              ELSE a2
    IN [obj |-> [className |-> className1, annotations |-> a3],
        modified |-> \/ restoreClass
                     \/ (restoreExternalDNS /\ (hasHost \/ hasSource \/ hasLiveSource))]

IngressNames == {"api", "web"}

\* cli.List: the Ingresses present, in the store's order
ListItems(store) ==
    LET order == <<"api", "web">>
        pick(n) == store[n].present
    IN [i \in 1..Len(SelectSeq(order, pick)) |->
           [name |-> SelectSeq(order, pick)[i], obj |-> store[SelectSeq(order, pick)[i]].obj]]

ReDone(ret) == [reRun EXCEPT !.pc = "done", !.ret = ret]

ReLog_Abort(what) ==
    [reRun EXCEPT !.log = Append(@, <<reRun.list[reRun.idx].name, what>>),
                  !.pc = "done", !.ret = what]

ReLog(what) ==
    [reRun EXCEPT !.log = Append(@, <<reRun.list[reRun.idx].name, what>>),
                  !.idx = @ + 1]

\* runReenabler: the List call
RunReenabler_List(io) ==
    /\ reRun.pc = "start"
    /\ IF io = "list fail"
       THEN reRun' = ReDone("list failed")
       ELSE reRun' = [reRun EXCEPT
                         !.list = ListItems(reStore), !.idx = 1,
                         !.pc = IF reParams.dangerouslyDeleteIngresses
                                THEN "preflight" ELSE "loop"]
    /\ UNCHANGED <<reParams, reStore, reRoutes, reGateways, reFilters, nonReVars>>

RunReenabler_Preflight_Skip(io) ==
    /\ reRun.pc = "preflight"
    /\ IF reRun.idx > Len(reRun.list)
       THEN reRun' = [reRun EXCEPT !.pc = "loop", !.idx = 1]
       ELSE LET item == reRun.list[reRun.idx]
                chk == checkDeleteEligibility(reRoutes, reGateways, item.name, item.obj, io)
            IN reRun' = IF chk.err THEN ReDone("check failed")
                        ELSE [reRun EXCEPT !.idx = @ + 1]
    /\ UNCHANGED <<reParams, reStore, reRoutes, reGateways, reFilters, nonReVars>>

\* runReenabler: the eligibility check of every listed Ingress before any deletion
RunReenabler_Preflight(io) ==
    /\ reRun.pc = "preflight"
    /\ IF reRun.idx > Len(reRun.list)
       THEN reRun' = [reRun EXCEPT !.pc = "loop", !.idx = 1]
       ELSE LET item == reRun.list[reRun.idx]
                chk == checkDeleteEligibility(reRoutes, reGateways, item.name, item.obj, io)
            IN reRun' = IF chk.err THEN ReDone("check failed")
                        ELSE IF ~chk.ok THEN ReDone("refusing to delete ingress")
                        ELSE [reRun EXCEPT !.idx = @ + 1]
    /\ UNCHANGED <<reParams, reStore, reRoutes, reGateways, reFilters, nonReVars>>

\* removeManagedHTTPRoutes: the routes left; a failed Delete leaves part of them
removeManagedHTTPRoutes(routes, name, deleted) ==
    routes \ deleted

\* removeAutomaticSnippetsFilter: the filters left
removeAutomaticSnippetsFilter(filters, name) ==
    IF filters.crd /\ filters.objs[name] = "managed"
    THEN [filters EXCEPT !.objs[name] = "absent"]
    ELSE filters

\* runReenabler: one iteration of the sweep's loop
RunReenabler_Loop(io) ==
    /\ reRun.pc = "loop"
    /\ reRun.idx <= Len(reRun.list)
    /\ LET item == reRun.list[reRun.idx]
           ingress == item.obj
           disabled == isDisabledIngress(ingress)
           restoreClass == disabled /\ reParams.restoreClass
           restored == restoreIngressState(ingress, restoreClass, reParams.restoreExternalDNS)
           managed == {r \in GetHTTPRoutesWithPrefix(reRoutes, item.name) :
                          IsManagedByUsForIngress(r, item.name)}
       IN IF reParams.dangerouslyDeleteIngresses /\ shouldDeleteIngress(ingress)
          THEN LET chk == checkDeleteEligibility(reRoutes, reGateways, item.name, ingress, io)
               IN /\ IF chk.err THEN /\ reRun' = ReLog("failed to verify managed resources")
                                      /\ UNCHANGED reStore
                     ELSE IF ~chk.ok THEN /\ reRun' = ReLog("skipping deletion")
                                          /\ UNCHANGED reStore
                     ELSE IF io = "delete fail" THEN /\ reRun' = ReLog("failed to delete")
                                                     /\ UNCHANGED reStore
                     ELSE /\ reStore' = [reStore EXCEPT ![item.name].present = FALSE]
                          /\ reRun' = ReLog("deleted")
                  /\ UNCHANGED <<reRoutes, reFilters>>
          ELSE IF ~disabled /\ (~reParams.restoreExternalDNS \/ ~needsExternalDNSRestore(ingress))
          THEN /\ reRun' = [reRun EXCEPT !.idx = @ + 1]
               /\ UNCHANGED <<reStore, reRoutes, reFilters>>
          ELSE IF restored.modified /\ io = "update fail"
          THEN /\ reRun' = ReLog("failed to restore")
               /\ UNCHANGED <<reStore, reRoutes, reFilters>>
          ELSE /\ reStore' = IF restored.modified
                             THEN [reStore EXCEPT ![item.name].obj = restored.obj]
                             ELSE reStore
               /\ IF restoreClass /\ reParams.removeDerivedResources
                  THEN IF io = "routes fail"
                       THEN /\ reRun' = ReLog("failed to remove HTTPRoutes")
                            /\ UNCHANGED <<reRoutes, reFilters>>
                       ELSE IF io = "route delete fail" /\ managed # {}
                       THEN /\ \E deleted \in SUBSET managed \ {managed} :
                                  reRoutes' = removeManagedHTTPRoutes(reRoutes, item.name, deleted)
                            /\ reRun' = ReLog("failed to remove HTTPRoutes")
                            /\ UNCHANGED reFilters
                       ELSE /\ reRoutes' = removeManagedHTTPRoutes(reRoutes, item.name, managed)
                            /\ IF io = "filter fail"
                               THEN /\ reRun' = ReLog("failed to remove SnippetsFilter")
                                    /\ UNCHANGED reFilters
                               ELSE /\ reFilters' = removeAutomaticSnippetsFilter(reFilters, item.name)
                                    /\ reRun' = ReLog("re-enabled")
                  ELSE /\ reRun' = ReLog(IF restoreClass THEN "re-enabled"
                                         ELSE "restored external-dns")
                       /\ UNCHANGED <<reRoutes, reFilters>>
    /\ UNCHANGED <<reParams, reGateways, nonReVars>>

\* runReenabler: return nil after the last Ingress
RunReenabler_Return ==
    /\ reRun.pc = "loop"
    /\ reRun.idx > Len(reRun.list)
    /\ reRun' = ReDone("")
    /\ UNCHANGED <<reParams, reStore, reRoutes, reGateways, reFilters, nonReVars>>

IOFaults ==
    {"ok", "list fail", "routes fail", "gateways fail", "delete fail", "update fail",
     "route delete fail", "filter fail"}

NextReenabler ==
    \/ \E io \in {"ok", "list fail"} : RunReenabler_List(io)
    \/ \E io \in {"ok", "routes fail", "gateways fail"} : RunReenabler_Preflight(io)
    \/ \E io \in IOFaults \ {"list fail"} : RunReenabler_Loop(io)
    \/ RunReenabler_Return

SweepWeb ==
    [className : {"nginx", DisabledIngressClassName},
     annotations :
        [disabled : {NoAnnotation, IngressDisabledReasonNormal,
                     IngressDisabledReasonExternalDNS, "manual"},
         class : {NoAnnotation},
         origClassName : {NoAnnotation, "nginx"},
         origClass : {NoAnnotation},
         hostname : {NoAnnotation},
         hostnameSource : {NoAnnotation, "defined-hosts-only"},
         origHostname : {NoAnnotation, "a.example.com"},
         origHostnameSource : {NoAnnotation}]]

SweepApi ==
    [className : {"nginx", DisabledIngressClassName},
     annotations :
        [disabled : {NoAnnotation, IngressDisabledReasonNormal},
         class : {NoAnnotation},
         origClassName : {NoAnnotation},
         origClass : {NoAnnotation},
         hostname : {NoAnnotation},
         hostnameSource : {NoAnnotation},
         origHostname : {NoAnnotation},
         origHostnameSource : {NoAnnotation}]]

SweepRoutes ==
    (SUBSET {[ingress |-> "web", managed |-> TRUE], [ingress |-> "api", managed |-> TRUE]})
    \cup {{[ingress |-> "web", managed |-> FALSE], [ingress |-> "api", managed |-> TRUE]}}

SweepGateways ==
    {{}, {[managed |-> TRUE, sources |-> {"web", "api"}]},
     {[managed |-> TRUE, sources |-> {"api"}], [managed |-> FALSE, sources |-> {"web"}]}}

InitReenabler ==
    /\ IdleNonReenabler
    /\ reParams \in MainParams
    /\ \E w \in SweepWeb, a \in SweepApi, wp \in BOOLEAN :
          reStore = [n \in IngressNames |->
                        IF n = "web" THEN [present |-> wp, obj |-> w]
                        ELSE [present |-> TRUE, obj |-> a]]
    /\ reRoutes \in SweepRoutes
    /\ reGateways \in SweepGateways
    /\ reFilters = [crd |-> TRUE, objs |-> [n \in IngressNames |-> "managed"]]
    /\ reRun = [pc |-> "start", list |-> <<>>, idx |-> 1, ret |-> "", log |-> <<>>]

SpecReenabler == InitReenabler /\ [][NextReenabler]_vars

KnownDisableReasons == {IngressDisabledReasonNormal, IngressDisabledReasonExternalDNS}

\* the Ingress carries the operator's disable marker in a deletable form
MarkedForDeletion(ingress) ==
    LET a == ingress.annotations
    IN \/ /\ a[IngressDisabledAnnotation] = IngressDisabledReasonNormal
          /\ \/ ingress.className = DisabledIngressClassName
             \/ a[IngressClassAnnotation] = DisabledIngressClassName
       \/ /\ a[IngressDisabledAnnotation] = IngressDisabledReasonExternalDNS
          /\ a[ExternalDNSIngressHostnameSource] \notin {NoAnnotation, ""}
          /\ \/ a[OriginalExternalDNSHostname] # NoAnnotation
             \/ a[OriginalExternalDNSIngressHostnameSource] # NoAnnotation

DeletedInStep(n) == reStore[n].present /\ ~reStore'[n].present

(***************************************************************************)
(* C2: in delete mode every Ingress the sweep deletes satisfied             *)
(* checkDeleteEligibility when it was deleted: shouldDelete was true and it *)
(* owned a managed route and a managed gateway presence; an Ingress without *)
(* the marker, or disabled for an unrelated reason, is never deleted.       *)
(***************************************************************************)
C2_DeletedOnlyIfEligible ==
    [][\A n \in IngressNames :
          DeletedInStep(n) =>
              /\ reParams.dangerouslyDeleteIngresses
              /\ reStore[n].obj.annotations[IngressDisabledAnnotation] \in KnownDisableReasons
              /\ MarkedForDeletion(reStore[n].obj)
              /\ OwnsManagedRoute(n)
              /\ OwnsManagedGateway(n)]_vars

\* the sweep has deleted an Ingress and has gone on to the end
C2_Witness ==
    /\ reRun.pc = "done"
    /\ reRun.ret = ""
    /\ reParams # <<>>
    /\ \E i \in 1..Len(reRun.log) :
          /\ reRun.log[i][2] = "deleted"
          /\ ~reStore[reRun.log[i][1]].present

(***************************************************************************)
(* Annotation values: strings over an alphabet of tokens                    *)
(* (internal/translator/gateway_utils.go)                                   *)
(***************************************************************************)
Range(f) == {f[i] : i \in DOMAIN f}

\* m[k] of a Go map: the empty string for a missing key
Lookup(m, k) == IF k \in DOMAIN m THEN m[k] ELSE <<>>

\* a map's iteration order: any enumeration of its keys
Orderings(S) ==
    {f \in [1..Cardinality(S) -> S] : \A i, j \in 1..Cardinality(S) : f[i] = f[j] => i = j}

\* strings.HasPrefix
HasPrefix(str, prefix) ==
    Len(prefix) <= Len(str) /\ SubSeq(str, 1, Len(prefix)) = prefix

RECURSIVE Split(_, _)
\* strings.Split with a one-character separator
Split(str, sep) ==
    IF \A i \in 1..Len(str) : str[i] # sep
    THEN <<str>>
    ELSE LET i == CHOOSE j \in 1..Len(str) :
                      str[j] = sep /\ \A k \in 1..(j - 1) : str[k] # sep
         IN <<SubSeq(str, 1, i - 1)>> \o Split(SubSeq(str, i + 1, Len(str)), sep)

RECURSIVE TrimSpace(_)
\* strings.TrimSpace
TrimSpace(str) ==
    IF str = <<>> THEN str
    ELSE IF Head(str) = " " THEN TrimSpace(Tail(str))
    ELSE IF str[Len(str)] = " " THEN TrimSpace(SubSeq(str, 1, Len(str) - 1))
    ELSE str

RECURSIVE Join(_, _)
\* strings.Join
Join(parts, sep) ==
    IF parts = <<>> THEN <<>>
    ELSE IF Len(parts) = 1 THEN parts[1]
    ELSE parts[1] \o sep \o Join(Tail(parts), sep)

\* the trimmed non-empty pieces of a separated value
TrimmedValues(str, sep) ==
    {TrimSpace(Split(str, sep)[i]) : i \in 1..Len(Split(str, sep))} \ {<<>>}

\* the keys of valuesMap in MergeCertificateMismatchAnnotation
CertMismatchValues(existing, desired) ==
    IF existing = <<>> \/ desired = <<>> THEN {}
    ELSE TrimmedValues(existing, ";") \cup TrimmedValues(desired, ";")

MergeCertificateMismatchAnnotation_ExistingWins(existing, desired, order) ==
    IF existing = <<>> THEN desired ELSE existing

\* order: the iteration order of valuesMap
MergeCertificateMismatchAnnotation(existing, desired, order) ==
    IF existing = <<>> THEN desired
    ELSE IF desired = <<>> THEN existing
    ELSE Join(order, <<";", " ">>)

RECURSIVE AppendFirstSeen_NoDedup(_, _)
AppendFirstSeen_NoDedup(values, parts) ==
    IF parts = <<>> THEN values
    ELSE AppendFirstSeen_NoDedup(IF TrimSpace(Head(parts)) # <<>>
                                 THEN Append(values, TrimSpace(Head(parts))) ELSE values,
                                 Tail(parts))

RECURSIVE AppendFirstSeen(_, _)
\* append the trimmed non-empty pieces not seen so far
AppendFirstSeen(values, parts) ==
    IF parts = <<>> THEN values
    ELSE LET trimmed == TrimSpace(Head(parts))
         IN AppendFirstSeen(IF trimmed # <<>> /\ trimmed \notin Range(values)
                            THEN Append(values, trimmed) ELSE values,
                            Tail(parts))

MergeAnnotationValues_DesiredFirst(existing, desired) ==
    IF existing = <<>> THEN desired
    ELSE IF desired = <<>> THEN existing
    ELSE Join(AppendFirstSeen(AppendFirstSeen(<<>>, Split(desired, ",")),
                              Split(existing, ",")),
              <<",">>)

MergeAnnotationValues(existing, desired) ==
    IF existing = <<>> THEN desired
    ELSE IF desired = <<>> THEN existing
    ELSE Join(AppendFirstSeen(AppendFirstSeen(<<>>, Split(existing, ",")),
                              Split(desired, ",")),
              <<",">>)

RECURSIVE KeptEntries(_, _)
\* the entries RemoveCertMismatchEntries keeps, trimmed, in order
KeptEntries(entries, hostnameMappings) ==
    IF entries = <<>> THEN <<>>
    ELSE LET trimmed == TrimSpace(Head(entries))
             rest == KeptEntries(Tail(entries), hostnameMappings)
         IN IF trimmed = <<>> THEN rest
            ELSE IF \E original \in DOMAIN hostnameMappings :
                        HasPrefix(trimmed, <<original, "->", hostnameMappings[original], ":">>)
            THEN rest
            ELSE <<trimmed>> \o rest

RemoveCertMismatchEntries_AnyTransformed(certMismatch, hostnameMappings) ==
    LET parts == Split(certMismatch, ";")
        keep(e) == e # <<>> /\ ~\E o \in DOMAIN hostnameMappings : HasPrefix(e, <<o, "->">>)
    IN IF certMismatch = <<>> THEN <<>>
       ELSE Join(SelectSeq([i \in DOMAIN parts |-> TrimSpace(parts[i])], keep), <<";", " ">>)

RemoveCertMismatchEntries(certMismatch, hostnameMappings) ==
    IF certMismatch = <<>> THEN <<>>
    ELSE Join(KeptEntries(Split(certMismatch, ";"), hostnameMappings), <<";", " ">>)

(***************************************************************************)
(* The shared Gateway: MergeGatewaySpec and RemoveIngressListeners          *)
(***************************************************************************)
MaxListeners == 2

\* annotation keys as <<domain, name>>; the key's string is domain "/" name
PrivatePrefix == "ingress-doperator.fiction.si"
MismatchedCertAnnotation == <<PrivatePrefix, "certificate-mismatch">>
SourceAnnotation == <<PrivatePrefix, "source">>
ManagedByAnnotation == <<"ingress-operator.fiction.si", "managed-by">>

ListenerNamesOf(listeners) == {listeners[i].name : i \in DOMAIN listeners}

\* the value a Go map holds for a name after the listeners are stored in order
LastNamed(listeners, name) ==
    listeners[CHOOSE i \in DOMAIN listeners :
                 /\ listeners[i].name = name
                 /\ \A j \in DOMAIN listeners : j > i => listeners[j].name # name]

\* the keys of existingListeners after the overlay
MergedListenerNames(existing, desired) ==
    ListenerNamesOf(existing.listeners) \cup ListenerNamesOf(desired.listeners)

\* the listeners of the result; iteration order of the map aside
MergeListeners_ExistingWins(existing, desired, order) ==
    [i \in DOMAIN order |->
        IF order[i] \in ListenerNamesOf(existing.listeners)
        THEN LastNamed(existing.listeners, order[i])
        ELSE LastNamed(desired.listeners, order[i])]

MergeListeners_DesiredOnly(existing, desired, order) ==
    desired.listeners

MergeListeners(existing, desired, order) ==
    [i \in DOMAIN order |->
        IF order[i] \in ListenerNamesOf(desired.listeners)
        THEN LastNamed(desired.listeners, order[i])
        ELSE LastNamed(existing.listeners, order[i])]

\* iter: the iteration orders of the two Go maps the merge flattens
MergeGatewaySpec(existing, desired, iter) ==
    LET old == existing.annotations
        new == desired.annotations
        merged(k) ==
            IF k = MismatchedCertAnnotation
            THEN MergeCertificateMismatchAnnotation(Lookup(old, k), new[k], iter.records)
            ELSE IF k = SourceAnnotation
            THEN MergeAnnotationValues(Lookup(old, k), new[k])
            ELSE IF k[1] = PrivatePrefix
            THEN new[k]
            ELSE MergeAnnotationValues(Lookup(old, k), new[k])
        oldInfra == existing.infrastructure.annotations
        newInfra == desired.infrastructure.annotations
    IN [annotations |->
            [k \in DOMAIN old \cup DOMAIN new |->
                IF k \in DOMAIN new THEN merged(k) ELSE old[k]],
        gatewayClassName |-> desired.gatewayClassName,
        infrastructure |->
            IF desired.infrastructure.present
            THEN [present |-> TRUE,
                  annotations |->
                      [k \in DOMAIN oldInfra \cup DOMAIN newInfra |->
                          IF k \in DOMAIN newInfra THEN newInfra[k] ELSE oldInfra[k]]]
            ELSE existing.infrastructure,
        listeners |-> MergeListeners(existing, desired, iter.listeners)]

\* the iteration orders one call of MergeGatewaySpec can meet
MergeIterations(existing, desired) ==
    [listeners : Orderings(MergedListenerNames(existing, desired)),
     records : Orderings(CertMismatchValues(
                   Lookup(existing.annotations, MismatchedCertAnnotation),
                   Lookup(desired.annotations, MismatchedCertAnnotation)))]

\* t.TransformHostname: the Translator's domain replacement
TransformHostname(t, host) ==
    IF t.replaceDomain /\ host = "a.x" THEN "a.y"
    ELSE IF t.replaceDomain /\ host = "b.x" THEN "b.y"
    ELSE host

\* the hosts of the Ingress rules, the empty ones left out
RuleHosts(ingress) == {ingress.rules[i] : i \in DOMAIN ingress.rules} \ {""}

RemoveIngressListeners_Untransformed(gateway, ingress, t) ==
    LET keep(listener) == listener.name \notin RuleHosts(ingress)
    IN [gateway EXCEPT !.listeners = SelectSeq(gateway.listeners, keep)]

RemoveIngressListeners(gateway, ingress, t) ==
    LET hostnamesToRemove == {TransformHostname(t, h) : h \in RuleHosts(ingress)}
        originalToTransformed == [h \in RuleHosts(ingress) |-> TransformHostname(t, h)]
        keep(listener) == listener.name \notin hostnamesToRemove
    IN [gateway EXCEPT
           !.listeners = SelectSeq(gateway.listeners, keep),
           !.annotations =
               IF MismatchedCertAnnotation \in DOMAIN gateway.annotations
               THEN [gateway.annotations EXCEPT ![MismatchedCertAnnotation] =
                        RemoveCertMismatchEntries(@, originalToTransformed)]
               ELSE gateway.annotations]

RECURSIVE ListenersForHosts(_, _, _)
\* one listener per distinct transformed hostname, named by it, in rule order
ListenersForHosts(hosts, t, secret) ==
    IF hosts = <<>> THEN <<>>
    ELSE LET rest == ListenersForHosts(Tail(hosts), t, secret)
             name == TransformHostname(t, Head(hosts))
         IN IF Head(hosts) = "" \/ name \in ListenerNamesOf(rest)
            THEN rest
            ELSE <<[name |-> name, secret |-> secret]>> \o rest

\* the Gateway a declaration contributes (synthesizeSharedGateway)
DesiredGateway(ingress, t) ==
    [annotations |-> (SourceAnnotation :> <<ingress.name>>)
                     @@ (ManagedByAnnotation :> <<ManagedByValue>>),
     gatewayClassName |-> "nginx",
     infrastructure |-> [present |-> FALSE, annotations |-> <<>>],
     listeners |-> ListenersForHosts(ingress.rules, t, ingress.secret)]

ListenerNames == {"a.x", "b.x", "a.y"}

Listeners == [name : ListenerNames, secret : {"s1", "s2"}]

\* listener lists a Gateway of the store can hold: names are unique
ListenerLists ==
    {l \in UNION {[1..n -> Listeners] : n \in 0..MaxListeners} :
        \A i, j \in DOMAIN l : l[i].name = l[j].name => i = j}

ExistingAnnotations ==
    {<<>>,
     (SourceAnnotation :> <<"api">>)
        @@ (MismatchedCertAnnotation :> <<"a.x", "->", "a.y", ":", " ", "s1", "->", "s2">>)
        @@ (ManagedByAnnotation :> <<ManagedByValue>>)}

DesiredAnnotations ==
    {<<>>,
     (SourceAnnotation :> <<"web">>)
        @@ (MismatchedCertAnnotation :> <<"b.x", "->", "b.y", ":", " ", "s1", "->", "s2">>)}

ExistingGateways ==
    {[annotations |-> a, gatewayClassName |-> "nginx",
      infrastructure |-> [present |-> FALSE, annotations |-> <<>>], listeners |-> l] :
        a \in ExistingAnnotations, l \in ListenerLists}

DesiredGateways ==
    {[annotations |-> a, gatewayClassName |-> "nginx",
      infrastructure |-> [present |-> TRUE, annotations |-> ("lb" :> "internal")],
      listeners |-> l] :
        a \in DesiredAnnotations, l \in ListenerLists}

Translators == [replaceDomain : BOOLEAN]

RuleLists == UNION {[1..n -> {"", "a.x", "b.x"}] : n \in 0..2}

Declarations == [name : {"web"}, rules : RuleLists, secret : {"s1"}]

NoDeclaration == [name |-> "", rules |-> <<>>, secret |-> ""]

InitMerge ==
    /\ IdleNonGateway
    /\ gwStore = <<>>
    /\ gwPasses = <<>>
    /\ \E existing \in ExistingGateways, t \in Translators :
          \/ \E desired \in DesiredGateways :
                gwCall = [pc |-> "merge", existing |-> existing, desired |-> desired,
                          ingress |-> NoDeclaration, t |-> t,
                          merged |-> existing, removed |-> existing]
          \/ \E ingress \in Declarations :
                gwCall = [pc |-> "merge", existing |-> existing,
                          desired |-> DesiredGateway(ingress, t),
                          ingress |-> ingress, t |-> t,
                          merged |-> existing, removed |-> existing]

MergeGatewaySpec_Call ==
    /\ gwCall.pc = "merge"
    /\ \E iter \in MergeIterations(gwCall.existing, gwCall.desired) :
          gwCall' = [gwCall EXCEPT
                        !.pc = IF gwCall.ingress = NoDeclaration THEN "done" ELSE "remove",
                        !.merged = MergeGatewaySpec(gwCall.existing, gwCall.desired, iter)]
    /\ UNCHANGED <<gwStore, gwPasses, nonGwVars>>

RemoveIngressListeners_Call ==
    /\ gwCall.pc = "remove"
    /\ gwCall' = [gwCall EXCEPT
                     !.pc = "done",
                     !.removed = RemoveIngressListeners(gwCall.merged, gwCall.ingress, gwCall.t)]
    /\ UNCHANGED <<gwStore, gwPasses, nonGwVars>>

NextMerge == MergeGatewaySpec_Call \/ RemoveIngressListeners_Call

SpecMerge == InitMerge /\ [][NextMerge]_vars

Merged == gwCall.pc \in {"remove", "done"}

UniqueNames(listeners) ==
    \A i, j \in DOMAIN listeners : listeners[i].name = listeners[j].name => i = j

(***************************************************************************)
(* C6: after MergeGatewaySpec(existing, desired) the listener set is the    *)
(* union of the two sets keyed by name, desired winning on a collision:     *)
(* every desired listener is present unchanged, every existing listener     *)
(* whose name is not in desired is present unchanged, no other listener is  *)
(* present, names are unique; merging a Gateway with itself gives the same  *)
(* listener set.                                                            *)
(***************************************************************************)
C6_MergeIsUnionKeyedByName ==
    Merged =>
        LET E == Range(gwCall.existing.listeners)
            D == Range(gwCall.desired.listeners)
            R == Range(gwCall.merged.listeners)
            namesD == {d.name : d \in D}
        IN /\ D \subseteq R
           /\ {e \in E : e.name \notin namesD} \subseteq R
           /\ R \subseteq D \cup {e \in E : e.name \notin namesD}
           /\ UniqueNames(gwCall.merged.listeners)
           /\ D = E => R = E

\* a merge where a desired listener replaced an existing one of the same name
\* and another existing listener was carried over
C6_Witness ==
    /\ gwCall # <<>>
    /\ Merged
    /\ \E e \in Range(gwCall.existing.listeners), d \in Range(gwCall.desired.listeners) :
          e.name = d.name /\ e # d /\ d \in Range(gwCall.merged.listeners)
    /\ \E e \in Range(gwCall.existing.listeners) :
          /\ e.name \notin ListenerNamesOf(gwCall.desired.listeners)
          /\ e \in Range(gwCall.merged.listeners)

MergedThenRemoved == gwCall.pc = "done" /\ gwCall.ingress # NoDeclaration

\* the listener names the declaration contributes
DeclarationNames == ListenerNamesOf(DesiredGateway(gwCall.ingress, gwCall.t).listeners)

(***************************************************************************)
(* C7 as stated: for every Gateway listener set and every declaration,      *)
(* merging the declaration's listeners and then removing them with          *)
(* RemoveIngressListeners restores the original listener set exactly.       *)
(***************************************************************************)
C7_RemoveRestoresOriginal ==
    MergedThenRemoved =>
        Range(gwCall.removed.listeners) = Range(gwCall.existing.listeners)

(***************************************************************************)
(* C7 amended: merging the declaration's listeners and then removing them   *)
(* leaves exactly the original listeners whose name is not one of the       *)
(* declaration's transformed hostnames; the original set is restored        *)
(* exactly when it held no listener of such a name.                         *)
(***************************************************************************)
C7_RemoveRestoresOthers ==
    MergedThenRemoved =>
        LET E == Range(gwCall.existing.listeners)
            R == Range(gwCall.removed.listeners)
        IN /\ R = {e \in E : e.name \notin DeclarationNames}
           /\ (\A e \in E : e.name \notin DeclarationNames) => R = E

\* a declaration with a transformed hostname was merged into a Gateway with
\* other listeners and removed again
C7_Witness ==
    /\ gwCall # <<>>
    /\ MergedThenRemoved
    /\ gwCall.t.replaceDomain
    /\ DeclarationNames # {}
    /\ gwCall.existing.listeners # <<>>
    /\ DeclarationNames \cap ListenerNamesOf(gwCall.existing.listeners) = {}
    /\ DeclarationNames \subseteq ListenerNamesOf(gwCall.merged.listeners)
    /\ Range(gwCall.removed.listeners) = Range(gwCall.existing.listeners)

(***************************************************************************)
(* Concurrent reconciliation passes on the shared Gateway                   *)
(***************************************************************************)
PassIds == {"web", "api"}

\* the declaration each pass reconciles
PassDeclarations ==
    {f \in [PassIds -> [name : PassIds, rules : {<<"a.x">>, <<"b.x">>, <<"a.x", "b.x">>},
                        secret : {"s1", "s2"}]] :
        /\ \A d \in PassIds : f[d].name = d
        /\ f["web"].secret = "s1" /\ f["web"].rules # <<"b.x">>
        /\ f["api"].secret = "s2" /\ f["api"].rules # <<"a.x", "b.x">>}

\* the Gateways the store can hold before the passes
StoredGateways == {g \in ExistingGateways : Len(g.listeners) <= 1}

NoGateway ==
    [annotations |-> <<>>, gatewayClassName |-> "",
     infrastructure |-> [present |-> FALSE, annotations |-> <<>>], listeners |-> <<>>]

\* the store's optimistic concurrency: an Update carries the version it read
UpdateAccepted(seenRv) == gwStore.rv = seenRv

InitGateway ==
    /\ IdleNonGateway
    /\ gwCall = <<>>
    /\ \/ gwStore = [exists |-> FALSE, gateway |-> NoGateway, rv |-> 0, original |-> {}]
       \/ \E g \in StoredGateways :
             gwStore = [exists |-> TRUE, gateway |-> g, rv |-> 0,
                        original |-> Range(g.listeners)]
    /\ \E decls \in PassDeclarations, t \in Translators :
          gwPasses = [d \in PassIds |->
                         [pc |-> "read", desired |-> DesiredGateway(decls[d], t),
                          seen |-> NoGateway, seenExists |-> FALSE, seenRv |-> 0,
                          conflicts |-> 0]]

\* the pass reads the shared Gateway
GatewayPass_Read(d) ==
    /\ gwPasses[d].pc = "read"
    /\ gwPasses' = [gwPasses EXCEPT ![d].pc = "write",
                                    ![d].seen = gwStore.gateway,
                                    ![d].seenExists = gwStore.exists,
                                    ![d].seenRv = gwStore.rv]
    /\ UNCHANGED <<gwStore, gwCall, nonGwVars>>

\* the pass creates the Gateway, or merges into its copy and writes it back;
\* a rejected write ends the pass with an error and the caller runs it again
GatewayPass_Write(d) ==
    /\ gwPasses[d].pc = "write"
    /\ LET pass == gwPasses[d]
       IN IF ~pass.seenExists
          THEN IF gwStore.exists
               THEN /\ gwPasses' = [gwPasses EXCEPT ![d].pc = "read", ![d].conflicts = @ + 1]
                    /\ UNCHANGED gwStore
               ELSE /\ gwStore' = [gwStore EXCEPT !.exists = TRUE, !.gateway = pass.desired,
                                                  !.rv = @ + 1]
                    /\ gwPasses' = [gwPasses EXCEPT ![d].pc = "done"]
          ELSE IF ~UpdateAccepted(pass.seenRv)
               THEN /\ gwPasses' = [gwPasses EXCEPT ![d].pc = "read", ![d].conflicts = @ + 1]
                    /\ UNCHANGED gwStore
               ELSE /\ \E iter \in MergeIterations(pass.seen, pass.desired) :
                          gwStore' = [gwStore EXCEPT
                                         !.gateway = MergeGatewaySpec(pass.seen, pass.desired, iter),
                                         !.rv = @ + 1]
                    /\ gwPasses' = [gwPasses EXCEPT ![d].pc = "done"]
    /\ UNCHANGED <<gwCall, nonGwVars>>

NextGateway == \E d \in PassIds : GatewayPass_Read(d) \/ GatewayPass_Write(d)

SpecGateway == InitGateway /\ [][NextGateway]_vars

BothPassesSucceeded == \A d \in PassIds : gwPasses[d].pc = "done"

ContributedListeners == UNION {Range(gwPasses[d].desired.listeners) : d \in PassIds}

(***************************************************************************)
(* C5 as stated: once two concurrent passes for different declarations have *)
(* both succeeded, the Gateway contains the listeners of both declarations  *)
(* and every listener that was present before.                              *)
(***************************************************************************)
C5_AllListenersPresent ==
    BothPassesSucceeded =>
        ContributedListeners \cup gwStore.original \subseteq Range(gwStore.gateway.listeners)

(***************************************************************************)
(* C5 amended: once both passes have succeeded, the Gateway holds exactly   *)
(* one listener for every listener name contributed by either declaration   *)
(* or present before, and no other: a declaration's listener for a name a   *)
(* declaration contributes, else the listener present before; no name is    *)
(* lost. When these names are pairwise distinct, the listeners of both      *)
(* declarations and every listener present before are all present.          *)
(***************************************************************************)
C5_NoListenerNameLost ==
    BothPassesSucceeded =>
        LET final == gwStore.gateway.listeners
            contributedNames == {l.name : l \in ContributedListeners}
            originalNames == {l.name : l \in gwStore.original}
        IN /\ ListenerNamesOf(final) = contributedNames \cup originalNames
           /\ UniqueNames(final)
           /\ \A l \in Range(final) :
                 IF l.name \in contributedNames
                 THEN l \in ContributedListeners
                 ELSE l \in gwStore.original
           /\ Cardinality(ContributedListeners \cup gwStore.original)
                  = Cardinality(contributedNames \cup originalNames)
              => ContributedListeners \cup gwStore.original \subseteq Range(final)

\* both passes succeeded after one of them was rejected and ran again, on a
\* Gateway that had a listener of its own
C5_Witness ==
    /\ gwPasses # <<>>
    /\ BothPassesSucceeded
    /\ \E d \in PassIds : gwPasses[d].conflicts > 0
    /\ gwStore.original # {}
    /\ \A d \in PassIds : gwPasses[d].desired.listeners # <<>>
    /\ ContributedListeners \cup gwStore.original \subseteq Range(gwStore.gateway.listeners)

(***************************************************************************)
(* The sharded reconcile cache                                              *)
(***************************************************************************)
\* ReconcileCacheTTL in seconds
ReconcileCacheTTL == 86400

\* offset32 and prime32 as 16-bit halves: 2166136261 = offset32Hi * 2^16 + offset32Lo,
\* 16777619 = prime32Hi * 2^16 + prime32Lo
offset32Hi == 33052
offset32Lo == 40389
prime32Hi == 256
prime32Lo == 403

RECURSIVE Xor(_, _)
\* a ^ b on non-negative integers
Xor(a, b) ==
    IF a = 0 THEN b
    ELSE IF b = 0 THEN a
    ELSE 2 * Xor(a \div 2, b \div 2) + ((a + b) % 2)

RECURSIVE fnv32aFrom(_, _)
\* the loop of fnv32a on a uint32 kept as [hi, lo]; s is the string's bytes
fnv32aFrom(hash, s) ==
    IF s = <<>> THEN hash
    ELSE LET lo == (hash.lo - (hash.lo % 256)) + Xor(hash.lo % 256, Head(s))
             product == lo * prime32Lo
         IN fnv32aFrom([hi |-> (hash.hi * prime32Lo + lo * prime32Hi + (product \div 65536)) % 65536,
                        lo |-> product % 65536],
                       Tail(s))

fnv32a(s) == fnv32aFrom([hi |-> offset32Hi, lo |-> offset32Lo], s)

reconcileCacheShardForKey_FirstByte(key, shardCount) ==
    IF shardCount <= 1 THEN 0 ELSE Head(key) % shardCount

reconcileCacheShardForKey(key, shardCount) ==
    IF shardCount <= 1 THEN 0
    ELSE LET h == fnv32a(key)
         IN ((h.hi % shardCount) * (65536 % shardCount) + h.lo) % shardCount

Digits == <<"0", "1", "2", "3", "4", "5", "6", "7", "8", "9">>

RECURSIVE FormatInt(_)
\* %d of a non-negative int64
FormatInt(n) ==
    IF n < 10 THEN <<Digits[n + 1]>>
    ELSE FormatInt(n \div 10) \o <<Digits[(n % 10) + 1]>>

DigitValue(c) == (CHOOSE i \in 1..10 : Digits[i] = c) - 1

RECURSIVE DecimalValue(_)
DecimalValue(str) ==
    IF str = <<>> THEN 0
    ELSE 10 * DecimalValue(SubSeq(str, 1, Len(str) - 1)) + DigitValue(str[Len(str)])

\* strconv.ParseInt(str, 10, 64) on the values the store holds here
ParseInt(str) ==
    LET digits == IF str # <<>> /\ Head(str) \in {"+", "-"} THEN Tail(str) ELSE str
    IN IF digits = <<>> \/ \E i \in DOMAIN digits : digits[i] \notin Range(Digits)
       THEN [ok |-> FALSE, value |-> 0]
       ELSE [ok |-> TRUE,
             value |-> IF Head(str) = "-" THEN 0 - DecimalValue(digits)
                       ELSE DecimalValue(digits)]

formatReconcileCacheEntry(entry) ==
    entry.ResourceVersion \o <<"|">> \o FormatInt(entry.UpdatedAtUnix)

NoEntry == [ResourceVersion |-> <<>>, UpdatedAtUnix |-> 0]

\* (entry, ok)
parseReconcileCacheEntry(raw) ==
    LET parts == Split(raw, "|")
    IN IF Len(parts) # 2
       THEN [entry |-> NoEntry, ok |-> FALSE]
       ELSE IF ~ParseInt(parts[2]).ok
       THEN [entry |-> NoEntry, ok |-> FALSE]
       ELSE [entry |-> [ResourceVersion |-> parts[1],
                        UpdatedAtUnix |-> ParseInt(parts[2]).value],
             ok |-> TRUE]

\* shardCount <= 0 is taken as 1
EffectiveShardCount(shardCount) == IF shardCount <= 0 THEN 1 ELSE shardCount

\* shards[shard] of SaveReconcileCacheSharded: the formatted entries of one shard
ShardData(data, shard, shardCount) ==
    LET keys == {k \in DOMAIN data : reconcileCacheShardForKey(k, shardCount) = shard}
    IN [k \in keys |-> formatReconcileCacheEntry(data[k])]

LoadedFrom_NoCutoff(cmData, cutoff) ==
    LET keys == {k \in DOMAIN cmData : parseReconcileCacheEntry(cmData[k]).ok}
    IN [k \in keys |-> parseReconcileCacheEntry(cmData[k]).entry]

\* the entries LoadReconcileCacheSharded takes from one shard's data
LoadedFrom(cmData, cutoff) ==
    LET keys == {k \in DOMAIN cmData :
                    /\ parseReconcileCacheEntry(cmData[k]).ok
                    /\ parseReconcileCacheEntry(cmData[k]).entry.UpdatedAtUnix >= cutoff}
    IN [k \in keys |-> parseReconcileCacheEntry(cmData[k]).entry]

\* keys as bytes: "a", "b", "c"
CacheKeys == {<<97>>, <<98>>}
StaleKey == <<99>>

\* time.Now().Unix() when the cache is loaded
LoadTimes == {90000, 93600}

VersionTokens == {<<>>, <<"1">>, <<"1", "2">>, <<"1", "|", "2">>, <<"|">>}

Timestamps == {3599, 3600, 7200, 90000}

CacheEntries == [ResourceVersion : VersionTokens, UpdatedAtUnix : Timestamps]

CacheMaps == UNION {[keys -> CacheEntries] : keys \in SUBSET CacheKeys}

ShardCounts == {0, 2}

NoConfigMap == [exists |-> FALSE, data |-> <<>>]

\* what a shard's ConfigMap can hold before the save
PreviousShards ==
    {NoConfigMap,
     [exists |-> TRUE, data |-> (StaleKey :> <<"9", "|", "9", "0", "0", "0", "0">>)],
     [exists |-> TRUE, data |-> (<<97>> :> <<"0", "|", "9", "0", "0", "0", "0">>)
                                @@ (StaleKey :> <<"b", "a", "d">>)]}

InitCache ==
    /\ IdleNonCache
    /\ cacheStore \in [0..1 -> PreviousShards]
    /\ \E data \in CacheMaps, shardCount \in ShardCounts :
          cacheRun = [pc |-> "save", shardCount |-> shardCount, data |-> data,
                      shard |-> 0, now |-> 0, out |-> <<>>, err |-> FALSE]

\* SaveReconcileCacheSharded: one round of the loop over the shards
SaveReconcileCacheSharded_Shard ==
    /\ cacheRun.pc = "save"
    /\ cacheRun.shard < EffectiveShardCount(cacheRun.shardCount)
    /\ cacheStore' = [cacheStore EXCEPT ![cacheRun.shard] =
                         [exists |-> TRUE,
                          data |-> ShardData(cacheRun.data, cacheRun.shard,
                                             EffectiveShardCount(cacheRun.shardCount))]]
    /\ cacheRun' = [cacheRun EXCEPT !.shard = @ + 1]
    /\ UNCHANGED nonCacheVars

\* SaveReconcileCacheSharded returns nil; the caller loads at some later time
SaveReconcileCacheSharded_Return ==
    /\ cacheRun.pc = "save"
    /\ cacheRun.shard >= EffectiveShardCount(cacheRun.shardCount)
    /\ \E now \in LoadTimes :
          cacheRun' = [cacheRun EXCEPT !.pc = "load", !.shard = 0, !.now = now]
    /\ UNCHANGED <<cacheStore, nonCacheVars>>

\* LoadReconcileCacheSharded: one round of the loop over the shards
LoadReconcileCacheSharded_Shard ==
    /\ cacheRun.pc = "load"
    /\ cacheRun.shard < EffectiveShardCount(cacheRun.shardCount)
    /\ LET cm == cacheStore[cacheRun.shard]
           cutoff == cacheRun.now - ReconcileCacheTTL
       IN cacheRun' = [cacheRun EXCEPT
                          !.shard = @ + 1,
                          !.out = IF cm.exists
                                  THEN LoadedFrom(cm.data, cutoff) @@ cacheRun.out
                                  ELSE cacheRun.out]
    /\ UNCHANGED <<cacheStore, nonCacheVars>>

LoadReconcileCacheSharded_Return ==
    /\ cacheRun.pc = "load"
    /\ cacheRun.shard >= EffectiveShardCount(cacheRun.shardCount)
    /\ cacheRun' = [cacheRun EXCEPT !.pc = "done"]
    /\ UNCHANGED <<cacheStore, nonCacheVars>>

NextCache ==
    \/ SaveReconcileCacheSharded_Shard
    \/ SaveReconcileCacheSharded_Return
    \/ LoadReconcileCacheSharded_Shard
    \/ LoadReconcileCacheSharded_Return

SpecCache == InitCache /\ [][NextCache]_vars

SavedAndLoaded == cacheRun.pc = "done" /\ ~cacheRun.err

WithinRetention(data, now) ==
    \A k \in DOMAIN data : data[k].UpdatedAtUnix >= now - ReconcileCacheTTL

(***************************************************************************)
(* C10: for every map M of entries within the retention window and every    *)
(* previous content of the shard objects, SaveReconcileCacheSharded(M)      *)
(* followed by LoadReconcileCacheSharded with the same shard count returns  *)
(* exactly M: the same keys, the same version token and timestamp per key.  *)
(***************************************************************************)
C10_LoadAfterSaveReturnsM ==
    (SavedAndLoaded /\ WithinRetention(cacheRun.data, cacheRun.now)) =>
        /\ DOMAIN cacheRun.out = DOMAIN cacheRun.data
        /\ \A k \in DOMAIN cacheRun.data : cacheRun.out[k] = cacheRun.data[k]

(***************************************************************************)
(* LoadReconcileCacheSharded on whatever the shard objects hold             *)
(***************************************************************************)
\* values a shard object can hold: written by a save, aged, or edited by hand
StoredValues ==
    {<<"1", "|", "9", "0", "0", "0", "0">>,
     <<"|", "7", "2", "0", "0">>,
     <<"1", "2", "|", "3", "6", "0", "0">>,
     <<"1", "|", "3", "5", "9", "9">>,
     <<"1", "|", "-", "5">>,
     <<"1", "|", "+", "9", "0", "0", "0", "0">>,
     <<"b", "a", "d">>,
     <<"1", "|">>,
     <<"1", "|", "9", "x">>,
     <<>>}

\* where a key is stored: nowhere, or in one shard with one value
Placements == {[shard |-> -1, raw |-> <<>>]} \cup [shard : 0..1, raw : StoredValues]

\* the shard objects for a placement of every key; a shard without keys may be missing
StoredShards(place, missing) ==
    [i \in 0..1 |->
        LET keys == {k \in DOMAIN place : place[k].shard = i}
        IN IF keys = {} /\ i \in missing
           THEN NoConfigMap
           ELSE [exists |-> TRUE, data |-> [k \in keys |-> place[k].raw]]]

InitLoad ==
    /\ IdleNonCache
    /\ \E place \in [CacheKeys -> Placements], missing \in SUBSET (0..1) :
          cacheStore = StoredShards(place, missing)
    /\ \E shardCount \in ShardCounts, now \in LoadTimes :
          cacheRun = [pc |-> "load", shardCount |-> shardCount, data |-> <<>>,
                      shard |-> 0, now |-> now, out |-> <<>>, err |-> FALSE]

NextLoad == LoadReconcileCacheSharded_Shard \/ LoadReconcileCacheSharded_Return

SpecLoad == InitLoad /\ [][NextLoad]_vars

Loaded == cacheRun.pc = "done" /\ ~cacheRun.err

\* the value reads version|integer with a version free of the separator
IsVersionBarInteger(raw) ==
    /\ Cardinality({i \in DOMAIN raw : raw[i] = "|"}) = 1
    /\ LET bar == CHOOSE i \in DOMAIN raw : raw[i] = "|"
           number == SubSeq(raw, bar + 1, Len(raw))
           digits == IF number # <<>> /\ number[1] \in {"+", "-"}
                     THEN SubSeq(number, 2, Len(number)) ELSE number
       IN digits # <<>> /\ \A i \in DOMAIN digits : digits[i] \in Range(Digits)

\* the timestamp such a value carries
TimestampOf(raw) ==
    LET bar == CHOOSE i \in DOMAIN raw : raw[i] = "|"
    IN ParseInt(SubSeq(raw, bar + 1, Len(raw))).value

VersionOf(raw) ==
    LET bar == CHOOSE i \in DOMAIN raw : raw[i] = "|"
    IN SubSeq(raw, 1, bar - 1)

LoadedShards == 0..(EffectiveShardCount(cacheRun.shardCount) - 1)

LoadReturnsFreshEntries ==
    Loaded =>
        /\ \A k \in DOMAIN cacheRun.out :
              cacheRun.out[k].UpdatedAtUnix >= cacheRun.now - ReconcileCacheTTL
        /\ \A i \in LoadedShards : \A k \in DOMAIN cacheStore[i].data :
              LET raw == cacheStore[i].data[k]
              IN (IsVersionBarInteger(raw)
                    /\ TimestampOf(raw) >= cacheRun.now - ReconcileCacheTTL)
                 => /\ k \in DOMAIN cacheRun.out
                    /\ cacheRun.out[k] = [ResourceVersion |-> VersionOf(raw),
                                          UpdatedAtUnix |-> TimestampOf(raw)]

(***************************************************************************)
(* C11: LoadReconcileCacheSharded never returns an entry older than now     *)
(* minus the 24h retention window, it returns every well-formed stored      *)
(* entry that is not older, and it writes nothing: every shard object is    *)
(* unchanged after load.                                                    *)
(***************************************************************************)
C11_LoadFiltersAndWritesNothing ==
    []LoadReturnsFreshEntries /\ [][cacheStore' = cacheStore]_vars

\* a load that met a fresh entry, an expired one and a malformed one
C11_Witness ==
    /\ cacheRun # <<>>
    /\ Loaded
    /\ cacheRun.data = <<>>
    /\ DOMAIN cacheRun.out # {}
    /\ \E i \in LoadedShards : \E k \in DOMAIN cacheStore[i].data :
          /\ IsVersionBarInteger(cacheStore[i].data[k])
          /\ TimestampOf(cacheStore[i].data[k]) < cacheRun.now - ReconcileCacheTTL
          /\ k \notin DOMAIN cacheRun.out

(***************************************************************************)
(* SaveReconcileCacheSharded, run twice with the same map                   *)
(***************************************************************************)
\* keys as bytes: "a", "b", "ns__w"
SavedKeys == {<<97>>, <<98>>, <<110, 115, 95, 95, 119>>}

SavedEntries == [ResourceVersion : {<<>>, <<"1", "2">>}, UpdatedAtUnix : {3599, 90000}]

SavedMaps == UNION {[keys -> SavedEntries] : keys \in SUBSET SavedKeys}

SavedShardCounts == {-1, 0, 1, 2, 3}

InitSave ==
    /\ IdleNonCache
    /\ cacheStore \in [0..2 -> PreviousShards]
    /\ \E data \in SavedMaps, shardCount \in SavedShardCounts :
          cacheRun = [pc |-> "save", shardCount |-> shardCount, data |-> data,
                      shard |-> 0, now |-> 0, out |-> <<>>, err |-> FALSE,
                      saves |-> 0, first |-> <<>>]

\* SaveReconcileCacheSharded returns nil
SaveReconcileCacheSharded_Saved ==
    /\ cacheRun.pc = "save"
    /\ cacheRun.shard >= EffectiveShardCount(cacheRun.shardCount)
    /\ cacheRun' = [cacheRun EXCEPT
                       !.pc = "saved", !.saves = @ + 1,
                       !.first = IF cacheRun.saves = 0 THEN cacheStore ELSE @]
    /\ UNCHANGED <<cacheStore, nonCacheVars>>

\* the caller saves the same map once more
SaveReconcileCacheSharded_Again ==
    /\ cacheRun.pc = "saved"
    /\ cacheRun.saves = 1
    /\ cacheRun' = [cacheRun EXCEPT !.pc = "save", !.shard = 0]
    /\ UNCHANGED <<cacheStore, nonCacheVars>>

NextSave ==
    \/ SaveReconcileCacheSharded_Shard
    \/ SaveReconcileCacheSharded_Saved
    \/ SaveReconcileCacheSharded_Again

SpecSave == InitSave /\ [][NextSave]_vars

\* FNV-1a (32 bit) of the keys, as published, in 16-bit halves
Fnv1aReference ==
    (<<97>> :> [hi |-> 58380, lo |-> 10540])
    @@ (<<98>> :> [hi |-> 59148, lo |-> 11749])
    @@ (<<110, 115, 95, 95, 119>> :> [hi |-> 61147, lo |-> 19841])

\* hash(k) mod N
HashModN(k, N) ==
    ((Fnv1aReference[k].hi % N) * (65536 % N) + Fnv1aReference[k].lo) % N

Saved == cacheRun.pc = "saved"

(***************************************************************************)
(* C12: after a successful SaveReconcileCacheSharded(M) with shard count N  *)
(* (N <= 0 taken as 1) all N shard objects exist, shard i holds exactly the *)
(* entries of M whose key k has hash(k) mod N = i (each key in exactly one  *)
(* shard, an empty map in a shard without entries), and saving the same M   *)
(* again leaves every shard's content unchanged.                            *)
(***************************************************************************)
C12_SavePartitionsByHash ==
    Saved =>
        LET N == IF cacheRun.shardCount <= 0 THEN 1 ELSE cacheRun.shardCount
            M == cacheRun.data
        IN /\ \A i \in 0..(N - 1) :
                 /\ cacheStore[i].exists
                 /\ DOMAIN cacheStore[i].data = {k \in DOMAIN M : HashModN(k, N) = i}
                 /\ \A k \in DOMAIN cacheStore[i].data :
                       cacheStore[i].data[k]
                           = M[k].ResourceVersion \o <<"|">> \o FormatInt(M[k].UpdatedAtUnix)
           /\ \A k \in DOMAIN M :
                 Cardinality({i \in 0..(N - 1) : k \in DOMAIN cacheStore[i].data}) = 1
           /\ cacheRun.saves = 2 => cacheStore = cacheRun.first

\* the same three keys were saved twice into three shards, one of them left empty
C12_Witness ==
    /\ cacheRun # <<>>
    /\ Saved
    /\ "saves" \in DOMAIN cacheRun
    /\ cacheRun.saves = 2
    /\ cacheRun.shardCount = 3
    /\ DOMAIN cacheRun.data = SavedKeys
    /\ \E i \in 0..2 : cacheStore[i].exists /\ DOMAIN cacheStore[i].data = {}
    /\ \E i \in 0..2 : Cardinality(DOMAIN cacheStore[i].data) = 2

(***************************************************************************)
(* Two reconciliation passes on the cache: load, add an entry, save         *)
(***************************************************************************)
CachePassIds == {1, 2}

\* the key each pass adds: "a" and "b" fall into the same shard for 1 and for 3 shards
CachePassKey == <<<<97>>, <<98>>>>

CachePassShardCounts == {1, 3}

CachePassNow == 90000

\* shard objects with the version the store keeps for optimistic concurrency
VersionedShards ==
    {[exists |-> FALSE, data |-> <<>>, rv |-> 0],
     [exists |-> TRUE, data |-> <<>>, rv |-> 0],
     [exists |-> TRUE, data |-> (StaleKey :> <<"9", "|", "9", "0", "0", "0", "0">>), rv |-> 0]}

InitCachePasses ==
    /\ IdleNonCache
    /\ cacheStore \in [0..2 -> VersionedShards]
    /\ \E shardCount \in CachePassShardCounts :
          cacheRun = [p \in CachePassIds |->
                         [pc |-> "load", shardCount |-> shardCount, shard |-> 0,
                          data |-> <<>>, seenExists |-> FALSE, seenRv |-> 0,
                          result |-> ""]]

\* LoadReconcileCacheSharded: one round of the loop, then return
CachePass_Load(p) ==
    /\ cacheRun[p].pc = "load"
    /\ LET pass == cacheRun[p]
           cm == cacheStore[pass.shard]
       IN IF pass.shard < EffectiveShardCount(pass.shardCount)
          THEN cacheRun' = [cacheRun EXCEPT
                  ![p].shard = @ + 1,
                  ![p].data = IF cm.exists
                              THEN LoadedFrom(cm.data, CachePassNow - ReconcileCacheTTL) @@ pass.data
                              ELSE pass.data]
          ELSE cacheRun' = [cacheRun EXCEPT ![p].pc = "add"]
    /\ UNCHANGED <<cacheStore, nonCacheVars>>

\* the pass records its declaration in the loaded map and calls save
CachePass_AddEntry(p) ==
    /\ cacheRun[p].pc = "add"
    /\ cacheRun' = [cacheRun EXCEPT
           ![p].data = (CachePassKey[p] :> [ResourceVersion |-> <<"1">>,
                                            UpdatedAtUnix |-> CachePassNow]) @@ @,
           ![p].pc = "get", ![p].shard = 0]
    /\ UNCHANGED <<cacheStore, nonCacheVars>>

\* SaveReconcileCacheSharded: c.Get of the shard's ConfigMap
CachePass_SaveGet(p) ==
    /\ cacheRun[p].pc = "get"
    /\ LET pass == cacheRun[p]
       IN IF pass.shard < EffectiveShardCount(pass.shardCount)
          THEN cacheRun' = [cacheRun EXCEPT
                  ![p].pc = "write",
                  ![p].seenExists = cacheStore[pass.shard].exists,
                  ![p].seenRv = cacheStore[pass.shard].rv]
          ELSE cacheRun' = [cacheRun EXCEPT ![p].pc = "done", ![p].result = "ok"]
    /\ UNCHANGED <<cacheStore, nonCacheVars>>

\* SaveReconcileCacheSharded: c.Create or c.Update of the shard's ConfigMap
CachePass_SaveWrite(p) ==
    /\ cacheRun[p].pc = "write"
    /\ LET pass == cacheRun[p]
           cm == cacheStore[pass.shard]
           shardData == ShardData(pass.data, pass.shard, EffectiveShardCount(pass.shardCount))
       IN IF (~pass.seenExists /\ cm.exists) \/ (pass.seenExists /\ cm.rv # pass.seenRv)
          THEN /\ cacheRun' = [cacheRun EXCEPT ![p].pc = "done", ![p].result = "conflict"]
               /\ UNCHANGED cacheStore
          ELSE /\ cacheStore' = [cacheStore EXCEPT ![pass.shard] =
                                    [exists |-> TRUE, data |-> shardData, rv |-> cm.rv + 1]]
               /\ cacheRun' = [cacheRun EXCEPT ![p].pc = "get", ![p].shard = @ + 1]
    /\ UNCHANGED nonCacheVars

NextCachePasses ==
    \E p \in CachePassIds :
        \/ CachePass_Load(p)
        \/ CachePass_AddEntry(p)
        \/ CachePass_SaveGet(p)
        \/ CachePass_SaveWrite(p)

SpecCachePasses == InitCachePasses /\ [][NextCachePasses]_vars

BothCachePassesDone == \A p \in CachePassIds : cacheRun[p].pc = "done"

StoredKeys == UNION {DOMAIN cacheStore[i].data : i \in DOMAIN cacheStore}

(***************************************************************************)
(* C13: when two passes each load the cache, add an entry under a different *)
(* key of the same shard, and save, then in every interleaving either one   *)
(* of the saves returns a conflict error or both entries are in the store   *)
(* afterwards; never do both saves succeed with one entry overwritten.      *)
(***************************************************************************)
C13_ConflictOrBothEntries ==
    BothCachePassesDone =>
        \/ \E p \in CachePassIds : cacheRun[p].result = "conflict"
        \/ \A p \in CachePassIds : CachePassKey[p] \in StoredKeys

(***************************************************************************)
(* restoreIngressState on every Ingress and every pair of flags             *)
(***************************************************************************)
RestoreIngresses ==
    [className : {Nil, "nginx", DisabledIngressClassName},
     annotations :
        [disabled : {NoAnnotation, "", IngressDisabledReasonNormal,
                     IngressDisabledReasonExternalDNS},
         class : {NoAnnotation, "", "nginx", DisabledIngressClassName},
         origClassName : {NoAnnotation, "", "nginx"},
         origClass : {NoAnnotation, "", "nginx"},
         hostname : {NoAnnotation, "b.example.com"},
         hostnameSource : {NoAnnotation, "", "annotation-only"},
         origHostname : {NoAnnotation, "", "a.example.com"},
         origHostnameSource : {NoAnnotation, "", "defined-hosts-only"}]]

InitRestore ==
    /\ IdleNonReenabler
    /\ reParams \in [restoreClass : BOOLEAN, restoreExternalDNS : BOOLEAN]
    /\ reStore \in [{"web"} -> [present : {TRUE}, obj : RestoreIngresses]]
    /\ reRoutes = {}
    /\ reGateways = {}
    /\ reFilters = <<>>
    /\ reRun = [pc |-> "call", before |-> reStore["web"].obj, updated |-> FALSE,
                err |-> FALSE]

\* restoreIngressState: the copy is changed, then written with cli.Update if modified
RestoreIngressState_Call(io) ==
    /\ reRun.pc = "call"
    /\ LET restored == restoreIngressState(reStore["web"].obj, reParams.restoreClass,
                                           reParams.restoreExternalDNS)
       IN IF ~restored.modified
          THEN /\ reRun' = [reRun EXCEPT !.pc = "returned"]
               /\ UNCHANGED reStore
          ELSE IF io = "update fail"
          THEN /\ reRun' = [reRun EXCEPT !.pc = "returned", !.updated = TRUE, !.err = TRUE]
               /\ UNCHANGED reStore
          ELSE /\ reRun' = [reRun EXCEPT !.pc = "returned", !.updated = TRUE]
               /\ reStore' = [reStore EXCEPT !["web"].obj = restored.obj]
    /\ UNCHANGED <<reParams, reRoutes, reGateways, reFilters, nonReVars>>

NextRestore == \E io \in {"ok", "update fail"} : RestoreIngressState_Call(io)

SpecRestore == InitRestore /\ [][NextRestore]_vars

Restored == reRun.pc = "returned" /\ ~reRun.err

\* the live annotation follows its shadow: the shadow's value, or no key at all
AnnotationFollowsShadow(before, after, shadow, live) ==
    before.annotations[shadow] # NoAnnotation =>
        IF before.annotations[shadow] # ""
        THEN after.annotations[live] = before.annotations[shadow]
        ELSE after.annotations[live] = NoAnnotation

(***************************************************************************)
(* C14: after a successful restoreIngressState, for a requested dimension   *)
(* whose shadow annotation is present: a non-empty shadow value is the live *)
(* field or annotation; an empty shadow value removes the live field or     *)
(* annotation entirely (class field unset, annotation key absent).          *)
(***************************************************************************)
C14_LiveValueFollowsShadow ==
    Restored =>
        LET before == reRun.before
            after == reStore["web"].obj
        IN /\ reParams.restoreClass =>
                /\ before.annotations[OriginalIngressClassNameAnnotation] # NoAnnotation =>
                      IF before.annotations[OriginalIngressClassNameAnnotation] # ""
                      THEN after.className
                               = before.annotations[OriginalIngressClassNameAnnotation]
                      ELSE after.className = Nil
                /\ AnnotationFollowsShadow(before, after, OriginalIngressClassAnnotation,
                                           IngressClassAnnotation)
           /\ reParams.restoreExternalDNS =>
                /\ AnnotationFollowsShadow(before, after, OriginalExternalDNSHostname,
                                           ExternalDNSHostnameAnnotation)
                /\ AnnotationFollowsShadow(before, after,
                                           OriginalExternalDNSIngressHostnameSource,
                                           ExternalDNSIngressHostnameSource)

\* both dimensions restored: the class from an empty shadow, the hostname from a value
C14_Witness ==
    /\ reRun # <<>>
    /\ "before" \in DOMAIN reRun
    /\ Restored
    /\ reRun.updated
    /\ reParams.restoreClass /\ reParams.restoreExternalDNS
    /\ reRun.before.className = DisabledIngressClassName
    /\ reRun.before.annotations[OriginalIngressClassNameAnnotation] = ""
    /\ reRun.before.annotations[OriginalIngressClassAnnotation] = ""
    /\ reRun.before.annotations[IngressClassAnnotation] = DisabledIngressClassName
    /\ reRun.before.annotations[OriginalExternalDNSHostname] = "a.example.com"
    /\ reStore["web"].obj.className = Nil
    /\ reStore["web"].obj.annotations[IngressClassAnnotation] = NoAnnotation
    /\ reStore["web"].obj.annotations[ExternalDNSHostnameAnnotation] = "a.example.com"

ClassShadows == {OriginalIngressClassNameAnnotation, OriginalIngressClassAnnotation}

HostnameShadows == {OriginalExternalDNSHostname, OriginalExternalDNSIngressHostnameSource}

(***************************************************************************)
(* C15: after a successful restoreIngressState, for each requested          *)
(* dimension none of its shadow annotations and no disabled marker remain;  *)
(* restoring only the class leaves the hostname annotations and shadows     *)
(* unchanged, restoring only the hostname leaves the class field, class     *)
(* annotation and class shadows unchanged.                                  *)
(***************************************************************************)
C15_ShadowsAndMarkerCleared ==
    Restored =>
        LET before == reRun.before.annotations
            after == reStore["web"].obj.annotations
        IN /\ reParams.restoreClass =>
                /\ \A k \in ClassShadows : after[k] = NoAnnotation
                /\ after[IngressDisabledAnnotation] = NoAnnotation
           /\ reParams.restoreExternalDNS =>
                /\ \A k \in HostnameShadows : after[k] = NoAnnotation
                /\ after[IngressDisabledAnnotation] = NoAnnotation
           /\ (reParams.restoreClass /\ ~reParams.restoreExternalDNS) =>
                \A k \in HostnameShadows
                         \cup {ExternalDNSHostnameAnnotation, ExternalDNSIngressHostnameSource} :
                    after[k] = before[k]
           /\ (reParams.restoreExternalDNS /\ ~reParams.restoreClass) =>
                /\ reStore["web"].obj.className = reRun.before.className
                /\ \A k \in ClassShadows \cup {IngressClassAnnotation} : after[k] = before[k]

InitIsDisabled ==
    /\ IdleNonReenabler
    /\ reParams = <<>>
    /\ reStore \in [{"web"} -> [present : {TRUE}, obj : RestoreIngresses]]
    /\ reRoutes = {}
    /\ reGateways = {}
    /\ reFilters = <<>>
    /\ reRun = [pc |-> "call", ret |-> FALSE]

IsDisabledIngress_Call ==
    /\ reRun.pc = "call"
    /\ reRun' = [pc |-> "returned", ret |-> isDisabledIngress(reStore["web"].obj)]
    /\ UNCHANGED <<reParams, reStore, reRoutes, reGateways, reFilters, nonReVars>>

NextIsDisabled == IsDisabledIngress_Call

SpecIsDisabled == InitIsDisabled /\ [][NextIsDisabled]_vars

ClassIsDisabledMarker(ingress) ==
    \/ ingress.className = DisabledIngressClassName
    \/ ingress.annotations[IngressClassAnnotation] = DisabledIngressClassName

DisabledAnnotationSet(ingress) ==
    ingress.annotations[IngressDisabledAnnotation] \notin {NoAnnotation, ""}

(***************************************************************************)
(* C17: isDisabledIngress is true exactly when the Ingress's class (spec    *)
(* field or class annotation) is the disabled class or the disabled         *)
(* annotation is present and non-empty; each condition alone is enough.     *)
(***************************************************************************)
C17_DisabledByClassOrAnnotation ==
    reRun.pc = "returned" =>
        (reRun.ret <=> (\/ ClassIsDisabledMarker(reStore["web"].obj)
                        \/ DisabledAnnotationSet(reStore["web"].obj)))

(***************************************************************************)
(* The annotation policies of MergeGatewaySpec on one key                   *)
(***************************************************************************)
MaxPieces == 2

GeneralAnnotation == <<"example.com", "team">>
OtherPrivateAnnotation == <<PrivatePrefix, "mode">>

AnnotationKeys ==
    {MismatchedCertAnnotation, SourceAnnotation, OtherPrivateAnnotation, GeneralAnnotation}

\* the separator of the values a key accumulates
SeparatorOf(k) == IF k = MismatchedCertAnnotation THEN ";" ELSE ","

\* a token as it may be written between two separators: bare, padded, blank
ValuePieces ==
    {<<"a">>, <<" ", "a", " ">>, <<"b">>, <<"a", " ", "b">>, <<" ">>}

\* the annotation values of at most MaxPieces pieces
AnnotationValues(sep) ==
    {Join(pieces, <<sep>>) :
        pieces \in UNION {[1..n -> ValuePieces] : n \in 0..MaxPieces}}

\* a Gateway that carries the one annotation
AnnotatedGateway(k, value) ==
    [annotations |-> (k :> value), gatewayClassName |-> "nginx",
     infrastructure |-> [present |-> FALSE, annotations |-> <<>>], listeners |-> <<>>]

InitAnnotations ==
    /\ IdleNonGateway
    /\ gwStore = <<>>
    /\ gwPasses = <<>>
    /\ \E k \in AnnotationKeys :
       \E existing \in AnnotationValues(SeparatorOf(k)),
          desired \in AnnotationValues(SeparatorOf(k)) :
          gwCall = [pc |-> "merge", key |-> k, existing |-> existing, desired |-> desired,
                    merged |-> <<>>, swapped |-> <<>>]

\* MergeGatewaySpec of the two values under the key, and of the two values swapped
MergeAnnotations_Call ==
    /\ gwCall.pc = "merge"
    /\ LET k == gwCall.key
           e == AnnotatedGateway(k, gwCall.existing)
           d == AnnotatedGateway(k, gwCall.desired)
       IN \E iter \in MergeIterations(e, d), back \in MergeIterations(d, e) :
             gwCall' = [gwCall EXCEPT
                           !.pc = "done",
                           !.merged = MergeGatewaySpec(e, d, iter).annotations[k],
                           !.swapped = MergeGatewaySpec(d, e, back).annotations[k]]
    /\ UNCHANGED <<gwStore, gwPasses, nonGwVars>>

NextAnnotations == MergeAnnotations_Call

SpecAnnotations == InitAnnotations /\ [][NextAnnotations]_vars

AnnotationsMerged == gwCall # <<>> /\ gwCall.pc = "done" /\ "swapped" \in DOMAIN gwCall

CommaKeys == {SourceAnnotation, GeneralAnnotation}

\* the pieces of a value between its separators, trimmed, the blank ones left out
TrimmedTokens(str, sep) ==
    LET parts == Split(str, sep)
        NonBlank(t) == t # <<>>
    IN SelectSeq([i \in DOMAIN parts |-> TrimSpace(parts[i])], NonBlank)

\* a list without the later occurrences of its elements
DistinctInOrder(seq) ==
    LET keep == {i \in DOMAIN seq : \A j \in 1..(i - 1) : seq[j] # seq[i]}
        nth(n) == CHOOSE i \in keep : Cardinality({j \in keep : j < i}) = n - 1
    IN [n \in 1..Cardinality(keep) |-> seq[nth(n)]]

\* the comma-join of the distinct tokens of existing, then of desired
OrderedUnion(existing, desired) ==
    Join(DistinctInOrder(TrimmedTokens(existing, ",") \o TrimmedTokens(desired, ",")),
         <<",">>)

(***************************************************************************)
(* C18: the annotation merge is idempotent under all three policies:        *)
(* merging a value A with itself gives the comma-join of A's distinct       *)
(* trimmed tokens under the comma policy, a value with the same set of      *)
(* records as A under the certificate-mismatch policy, and A itself under   *)
(* the replace policy.                                                      *)
(***************************************************************************)
C18_MergeWithItself ==
    (AnnotationsMerged /\ gwCall.existing = gwCall.desired) =>
        LET A == gwCall.existing
        IN IF gwCall.key \in CommaKeys
           THEN gwCall.merged = Join(DistinctInOrder(TrimmedTokens(A, ",")), <<",">>)
           ELSE IF gwCall.key = MismatchedCertAnnotation
           THEN Range(TrimmedTokens(gwCall.merged, ";")) = Range(TrimmedTokens(A, ";"))
           ELSE gwCall.merged = A

\* "a, a " merged with itself under the source key is "a"
C18_Witness ==
    /\ AnnotationsMerged
    /\ gwCall.key = SourceAnnotation
    /\ gwCall.existing = <<"a", ",", " ", "a", " ">>
    /\ gwCall.desired = gwCall.existing
    /\ gwCall.merged = <<"a">>

(***************************************************************************)
(* C19: under the two union policies, for all values A and B (the empty     *)
(* value included), merge(A, B) and merge(B, A) hold the same set of        *)
(* trimmed non-empty tokens.                                                *)
(***************************************************************************)
C19_SameTokensEitherWay ==
    (AnnotationsMerged /\ gwCall.key # OtherPrivateAnnotation) =>
        Range(TrimmedTokens(gwCall.merged, SeparatorOf(gwCall.key)))
            = Range(TrimmedTokens(gwCall.swapped, SeparatorOf(gwCall.key)))

\* two values with different records merged in both directions
C19_Witness ==
    /\ AnnotationsMerged
    /\ gwCall.key = MismatchedCertAnnotation
    /\ gwCall.existing = <<"a", ";", "b">>
    /\ gwCall.desired = <<"a", " ", "b">>
    /\ gwCall.merged # gwCall.swapped
    /\ Cardinality(Range(TrimmedTokens(gwCall.merged, ";"))) = 3

(***************************************************************************)
(* C20 as stated: for all comma-separated existing and desired,             *)
(* MergeAnnotationValues returns the comma-join of the distinct trimmed     *)
(* non-empty tokens in first-seen order, existing first; with an empty      *)
(* existing the result is desired, with an empty desired it is existing.    *)
(***************************************************************************)
C20_OrderedUnionAlways ==
    (AnnotationsMerged /\ gwCall.key \in CommaKeys) =>
        /\ gwCall.merged = OrderedUnion(gwCall.existing, gwCall.desired)
        /\ gwCall.existing = <<>> => gwCall.merged = gwCall.desired
        /\ gwCall.desired = <<>> => gwCall.merged = gwCall.existing

(***************************************************************************)
(* C20: MergeAnnotationValues of two non-empty values is the comma-join of  *)
(* the distinct trimmed non-empty tokens in first-seen order, existing      *)
(* first; when one value is empty the result is the other value as it is,   *)
(* its repeated, padded and blank tokens kept.                              *)
(***************************************************************************)
C20_OrderedUnionOrOtherSide ==
    (AnnotationsMerged /\ gwCall.key \in CommaKeys) =>
        IF gwCall.existing = <<>> THEN gwCall.merged = gwCall.desired
        ELSE IF gwCall.desired = <<>> THEN gwCall.merged = gwCall.existing
        ELSE gwCall.merged = OrderedUnion(gwCall.existing, gwCall.desired)

\* a token on both sides is kept once, at its first place
C20_Witness ==
    /\ AnnotationsMerged
    /\ gwCall.key = GeneralAnnotation
    /\ gwCall.existing = <<"b", ",", " ", "a", " ">>
    /\ gwCall.desired = <<"a", " ", "b", ",", " ", "a", " ">>
    /\ gwCall.merged = <<"b", ",", "a", ",", "a", " ", "b">>

\* the records of a certificate-mismatch value, trimmed, the blank ones left out
RecordsOf(value) == TrimmedTokens(value, ";")

NoRecordTwice(value) == Len(RecordsOf(value)) = Cardinality(Range(RecordsOf(value)))

CertMismatchMerged == AnnotationsMerged /\ gwCall.key = MismatchedCertAnnotation

(***************************************************************************)
(* C21 as stated: for all certificate-mismatch values existing and desired, *)
(* the records of MergeCertificateMismatchAnnotation's result are exactly   *)
(* the union of the trimmed non-empty records of both sides, each record    *)
(* occurring once.                                                          *)
(***************************************************************************)
C21_RecordUnionEachOnce ==
    CertMismatchMerged =>
        /\ Range(RecordsOf(gwCall.merged))
              = Range(RecordsOf(gwCall.existing)) \cup Range(RecordsOf(gwCall.desired))
        /\ NoRecordTwice(gwCall.merged)

(***************************************************************************)
(* C21: the records of MergeCertificateMismatchAnnotation's result are, as  *)
(* a set, the union of the trimmed non-empty records of both sides; when    *)
(* both sides are non-empty each record occurs once and the result is the   *)
(* records joined with "; "; when one side is empty the result is the other *)
(* side as it is, its repeated and padded records kept.                     *)
(***************************************************************************)
C21_RecordUnionOrOtherSide ==
    CertMismatchMerged =>
        /\ Range(RecordsOf(gwCall.merged))
              = Range(RecordsOf(gwCall.existing)) \cup Range(RecordsOf(gwCall.desired))
        /\ IF gwCall.existing = <<>> THEN gwCall.merged = gwCall.desired
           ELSE IF gwCall.desired = <<>> THEN gwCall.merged = gwCall.existing
           ELSE /\ NoRecordTwice(gwCall.merged)
                /\ gwCall.merged = Join(RecordsOf(gwCall.merged), <<";", " ">>)

\* one record merged with a value holding it and a second one: two records, new one first
C21_Witness ==
    /\ CertMismatchMerged
    /\ gwCall.existing = <<"a", " ", "b">>
    /\ gwCall.desired = <<"a", " ", "b", ";", " ", "a", " ">>
    /\ gwCall.merged = <<"a", ";", " ", "a", " ", "b">>

(***************************************************************************)
(* MergeGatewaySpec on the engine's control annotations                     *)
(***************************************************************************)
ControlKeys == {OtherPrivateAnnotation, ManagedByAnnotation, GeneralAnnotation}

ControlValues ==
    {<<>>, <<ManagedByValue>>, <<"someone-else">>, <<"a", ",", " ", "a">>}

ControlAnnotations == UNION {[D -> ControlValues] : D \in SUBSET ControlKeys}

ControlGateway(annotations) ==
    [annotations |-> annotations, gatewayClassName |-> "nginx",
     infrastructure |-> [present |-> FALSE, annotations |-> <<>>], listeners |-> <<>>]

InitControl ==
    /\ IdleNonGateway
    /\ gwStore = <<>>
    /\ gwPasses = <<>>
    /\ \E old \in ControlAnnotations, new \in ControlAnnotations :
          gwCall = [pc |-> "merge", existing |-> ControlGateway(old),
                    desired |-> ControlGateway(new),
                    ingress |-> NoDeclaration, t |-> [replaceDomain |-> FALSE],
                    merged |-> ControlGateway(old), removed |-> ControlGateway(old)]

NextControl == MergeGatewaySpec_Call

SpecControl == InitControl /\ [][NextControl]_vars

\* the keys of the engine's own annotation namespace, the ownership marker among them
EngineKeys == {OtherPrivateAnnotation, ManagedByAnnotation}

ControlMerged == gwCall # <<>> /\ gwCall.pc = "done" /\ "merged" \in DOMAIN gwCall

(***************************************************************************)
(* C22: after MergeGatewaySpec(existing, desired), every annotation of      *)
(* desired under a key of the engine's own namespace (the ownership marker  *)
(* included, the certificate-mismatch and source keys excepted) has         *)
(* desired's value in existing, and every annotation of existing whose key  *)
(* desired lacks is unchanged.                                              *)
(***************************************************************************)
C22_EngineKeysOverwritten ==
    ControlMerged =>
        LET old == gwCall.existing.annotations
            new == gwCall.desired.annotations
            out == gwCall.merged.annotations
        IN /\ \A k \in DOMAIN new \cap EngineKeys : k \in DOMAIN out /\ out[k] = new[k]
           /\ \A k \in DOMAIN old \ DOMAIN new : k \in DOMAIN out /\ out[k] = old[k]

(***************************************************************************)
(* The restore sweep run twice, nothing else changing the store             *)
(***************************************************************************)
RestoreSweepWeb ==
    [className : {"nginx", DisabledIngressClassName},
     annotations :
        [disabled : {NoAnnotation, IngressDisabledReasonNormal,
                     IngressDisabledReasonExternalDNS},
         class : {NoAnnotation},
         origClassName : {NoAnnotation, "", "nginx"},
         origClass : {NoAnnotation},
         hostname : {NoAnnotation, "b.example.com"},
         hostnameSource : {NoAnnotation, "defined-hosts-only"},
         origHostname : {NoAnnotation, "", "a.example.com"},
         origHostnameSource : {NoAnnotation, "", "annotation-only"}]]

RestoreParams == {p \in MainParams : ~p.dangerouslyDeleteIngresses}

InitRestoreTwice ==
    /\ IdleNonReenabler
    /\ reParams \in RestoreParams
    /\ \E w \in RestoreSweepWeb, a \in SweepApi :
          reStore = [n \in IngressNames |->
                        IF n = "web" THEN [present |-> TRUE, obj |-> w]
                        ELSE [present |-> TRUE, obj |-> a]]
    /\ reRoutes = {[ingress |-> "web", managed |-> TRUE], [ingress |-> "api", managed |-> TRUE]}
    /\ reGateways = {}
    /\ reFilters = [crd |-> TRUE, objs |-> [n \in IngressNames |-> "managed"]]
    /\ reRun = [pc |-> "start", list |-> <<>>, idx |-> 1, ret |-> "", log |-> <<>>,
                run |-> 1, first |-> <<>>]

\* main started again with the same flags once the first run has returned
RunReenabler_Again ==
    /\ reRun.pc = "done"
    /\ reRun.run = 1
    /\ reRun' = [pc |-> "start", list |-> <<>>, idx |-> 1, ret |-> "", log |-> <<>>,
                 run |-> 2, first |-> [ret |-> reRun.ret, log |-> reRun.log]]
    /\ UNCHANGED <<reParams, reStore, reRoutes, reGateways, reFilters, nonReVars>>

NextRestoreTwice ==
    \/ \E io \in {"ok", "list fail"} : RunReenabler_List(io)
    \/ \E io \in IOFaults \ {"list fail", "gateways fail", "delete fail"} : RunReenabler_Loop(io)
    \/ RunReenabler_Return
    \/ RunReenabler_Again

SpecRestoreTwice == InitRestoreTwice /\ [][NextRestoreTwice]_vars

FailureLogs ==
    {"failed to restore", "failed to remove HTTPRoutes", "failed to remove SnippetsFilter"}

\* the first run listed the Ingresses and met no failure on any of them
FirstRunClean ==
    /\ reRun.run = 2
    /\ reRun.first.ret = ""
    /\ \A i \in DOMAIN reRun.first.log : reRun.first.log[i][2] \notin FailureLogs

(***************************************************************************)
(* C23: the restore sweep is idempotent: a second run of runReenabler in    *)
(* restore mode after a first run that met no failure, with no change in    *)
(* between, modifies no Ingress (the hostname and hostname-source values    *)
(* the first run restored are still there).                                 *)
(***************************************************************************)
C23_SecondRunChangesNothing ==
    [][FirstRunClean => reStore' = reStore]_vars

(***************************************************************************)
(* The sweep main starts with --remove-derived-resources=true               *)
(***************************************************************************)
RemoveDerivedParams == {p \in MainParams : p.removeDerivedResources}

InitRemoveDerived ==
    /\ IdleNonReenabler
    /\ reParams \in RemoveDerivedParams
    /\ \E w \in {x \in SweepWeb : isDisabledIngress(x)}, a \in SweepApi :
          reStore = [n \in IngressNames |->
                        IF n = "web" THEN [present |-> TRUE, obj |-> w]
                        ELSE [present |-> TRUE, obj |-> a]]
    /\ reRoutes = {[ingress |-> "web", managed |-> TRUE], [ingress |-> "api", managed |-> TRUE]}
    /\ reGateways = {}
    /\ reFilters = [crd |-> TRUE, objs |-> [n \in IngressNames |-> "managed"]]
    /\ reRun = [pc |-> "start", list |-> <<>>, idx |-> 1, ret |-> "", log |-> <<>>]

\* the run with every call to the API server succeeding
NextRemoveDerived ==
    \/ RunReenabler_List("ok")
    \/ RunReenabler_Loop("ok")
    \/ RunReenabler_Return

SpecRemoveDerived ==
    InitRemoveDerived /\ [][NextRemoveDerived]_vars /\ WF_vars(NextRemoveDerived)

(***************************************************************************)
(* C25: started by main with --remove-derived-resources=true on a disabled  *)
(* Ingress, the sweep reaches the removal of the Ingress's managed          *)
(* HTTPRoutes and of its automatic SnippetsFilter.                          *)
(***************************************************************************)
C25_RemovalReached ==
    <>(/\ \A r \in reRoutes : r.ingress # "web"
       /\ reFilters.objs["web"] = "absent")

(***************************************************************************)
(* runReenabler in restore mode with failing calls                          *)
(***************************************************************************)
SweepParams ==
    [removeDerivedResources : BOOLEAN, restoreClass : BOOLEAN,
     restoreExternalDNS : BOOLEAN, dangerouslyDeleteIngresses : {FALSE}]

InitSweep ==
    /\ IdleNonReenabler
    /\ reParams \in SweepParams
    /\ \E w \in SweepWeb, a \in SweepApi :
          reStore = [n \in IngressNames |->
                        IF n = "web" THEN [present |-> TRUE, obj |-> w]
                        ELSE [present |-> TRUE, obj |-> a]]
    /\ reRoutes = {[ingress |-> "web", managed |-> TRUE], [ingress |-> "api", managed |-> TRUE]}
    /\ reGateways = {}
    /\ reFilters = [crd |-> TRUE, objs |-> [n \in IngressNames |-> "managed"]]
    /\ reRun = [pc |-> "start", list |-> <<>>, idx |-> 1, ret |-> "", log |-> <<>>]

NextSweep ==
    \/ \E io \in {"ok", "list fail"} : RunReenabler_List(io)
    \/ \E io \in {"ok", "update fail", "routes fail", "route delete fail", "filter fail"} :
          RunReenabler_Loop(io)
    \/ RunReenabler_Return

\* every call to the API server returns, so a started step of the sweep completes
SpecSweep == InitSweep /\ [][NextSweep]_vars /\ WF_vars(NextSweep)

Logged(name, what) == \E k \in DOMAIN reRun.log : reRun.log[k] = <<name, what>>

\* the listed Ingress went through its iteration: left alone if nothing was to
\* restore, unchanged if its own Update failed, restored otherwise
ProcessedInSweep(item) ==
    LET disabled == isDisabledIngress(item.obj)
        wanted == disabled \/ (reParams.restoreExternalDNS /\ needsExternalDNSRestore(item.obj))
    IN reStore[item.name].obj =
          IF ~wanted \/ Logged(item.name, "failed to restore")
          THEN item.obj
          ELSE restoreIngressState(item.obj, disabled /\ reParams.restoreClass,
                                   reParams.restoreExternalDNS).obj

SweepListed == reRun # <<>> /\ reRun.pc = "done" /\ reRun.ret # "list failed"

(***************************************************************************)
(* C24: in the restore sweep a failure on one Ingress (failed Update,       *)
(* failed removal of derived objects) does not abort the sweep: once the    *)
(* listing succeeded the sweep goes through every listed Ingress, each      *)
(* other Ingress is processed as without the failure, and runReenabler      *)
(* returns nil.                                                             *)
(***************************************************************************)
C24_SweepContinuesPastFailure ==
    /\ [](SweepListed =>
            /\ reRun.ret = ""
            /\ reRun.idx = Len(reRun.list) + 1
            /\ \A i \in DOMAIN reRun.list : ProcessedInSweep(reRun.list[i]))
    /\ (reRun.pc = "loop") ~> (reRun.pc = "done" /\ reRun.ret = "")

\* the Update of the first Ingress failed and the second one was re-enabled
C24_Witness ==
    /\ SweepListed
    /\ reRun.log = <<<<"api", "failed to restore">>, <<"web", "re-enabled">>>>
    /\ reStore["api"].obj = reRun.list[1].obj
    /\ reStore["web"].obj # reRun.list[2].obj

(***************************************************************************)
(* RemoveIngressListeners on a Gateway with several records                 *)
(***************************************************************************)
RecordAY == <<"a.x", "->", "a.y", ":", " ", "s1", "->", "s2">>
RecordBY == <<"b.x", "->", "b.y", ":", " ", "s1", "->", "s2">>
RecordAX == <<"a.x", "->", "a.x", ":", " ", "s1", "->", "s2">>

RemovalCertValues ==
    {<<>>, RecordAY, RecordAY \o <<";", " ">> \o RecordBY,
     <<" ">> \o RecordBY \o <<" ", ";", ";", " ">> \o RecordAX,
     RecordAX \o <<";">> \o RecordAY \o <<";", " ">> \o RecordBY}

RemovalAnnotations ==
    {(SourceAnnotation :> <<"api", ",", "web">>) @@ (GeneralAnnotation :> <<"a", ";", " ", "b">>)}
    \cup {(SourceAnnotation :> <<"api", ",", "web">>) @@ (MismatchedCertAnnotation :> c) :
              c \in RemovalCertValues}

InitRemove ==
    /\ IdleNonGateway
    /\ gwStore = <<>>
    /\ gwPasses = <<>>
    /\ \E a \in RemovalAnnotations, l \in ListenerLists, ingress \in Declarations,
          t \in Translators :
          LET gateway == [annotations |-> a, gatewayClassName |-> "nginx",
                          infrastructure |-> [present |-> FALSE, annotations |-> <<>>],
                          listeners |-> l]
          IN gwCall = [pc |-> "remove", existing |-> gateway, desired |-> gateway,
                       ingress |-> ingress, t |-> t, merged |-> gateway, removed |-> gateway]

NextRemove == RemoveIngressListeners_Call

SpecRemove == InitRemove /\ [][NextRemove]_vars

\* the (original, transformed) hostname pairs of the declaration's non-empty rule hosts
HostnamePairs ==
    {<<gwCall.ingress.rules[i], TransformHostname(gwCall.t, gwCall.ingress.rules[i])>> :
        i \in {j \in DOMAIN gwCall.ingress.rules : gwCall.ingress.rules[j] # ""}}

ListenerOfDeclaration(listener) == \E p \in HostnamePairs : listener.name = p[2]

RecordOfDeclaration(record) ==
    \E p \in HostnamePairs : HasPrefix(record, <<p[1], "->", p[2], ":">>)

OtherListener(listener) == ~ListenerOfDeclaration(listener)

OtherRecord(record) == ~RecordOfDeclaration(record)

ListenersRemoved == gwCall # <<>> /\ gwCall.pc = "done" /\ "removed" \in DOMAIN gwCall

(***************************************************************************)
(* C26: RemoveIngressListeners removes exactly the listeners named by the   *)
(* transformed hostname of one of the declaration's non-empty rule hosts    *)
(* and leaves the others as they are; from the certificate-mismatch         *)
(* annotation it removes exactly the records starting with                  *)
(* original->transformed: for one of the declaration's hostname pairs,      *)
(* keeps the other records, gives the empty string when none is left, and   *)
(* leaves every other annotation unchanged.                                 *)
(***************************************************************************)
C26_RemovesOnlyTheDeclarations ==
    ListenersRemoved =>
        LET before == gwCall.merged
            after == gwCall.removed
        IN /\ after.listeners = SelectSeq(before.listeners, OtherListener)
           /\ DOMAIN after.annotations = DOMAIN before.annotations
           /\ \A k \in DOMAIN before.annotations \ {MismatchedCertAnnotation} :
                 after.annotations[k] = before.annotations[k]
           /\ MismatchedCertAnnotation \in DOMAIN before.annotations =>
                 /\ RecordsOf(after.annotations[MismatchedCertAnnotation])
                       = SelectSeq(RecordsOf(before.annotations[MismatchedCertAnnotation]),
                                   OtherRecord)
                 /\ (\A i \in DOMAIN RecordsOf(before.annotations[MismatchedCertAnnotation]) :
                        RecordOfDeclaration(
                            RecordsOf(before.annotations[MismatchedCertAnnotation])[i]))
                       => after.annotations[MismatchedCertAnnotation] = <<>>
           /\ after.gatewayClassName = before.gatewayClassName
           /\ after.infrastructure = before.infrastructure

\* one of two listeners and one of three records belong to the declaration
C26_Witness ==
    /\ ListenersRemoved
    /\ gwCall.t.replaceDomain
    /\ gwCall.ingress.rules = <<"a.x">>
    /\ Len(gwCall.merged.listeners) = 2
    /\ Len(gwCall.removed.listeners) = 1
    /\ gwCall.removed.listeners[1].name = "b.x"
    /\ MismatchedCertAnnotation \in DOMAIN gwCall.merged.annotations
    /\ gwCall.merged.annotations[MismatchedCertAnnotation]
          = RecordAX \o <<";">> \o RecordAY \o <<";", " ">> \o RecordBY
    /\ gwCall.removed.annotations[MismatchedCertAnnotation]
          = RecordAX \o <<";", " ">> \o RecordBY

(***************************************************************************)
(* SaveReconcileCacheSharded with a failing or interrupted write            *)
(***************************************************************************)
InitSaveFail ==
    /\ IdleNonCache
    /\ cacheStore \in [0..2 -> PreviousShards]
    /\ \E data \in SavedMaps, shardCount \in {1, 2, 3} :
          cacheRun = [pc |-> "save", shardCount |-> shardCount, data |-> data,
                      shard |-> 0, now |-> 0, out |-> <<>>, err |-> FALSE,
                      before |-> cacheStore]

\* c.Get, c.Create or c.Update of the current shard fails, or the process stops
\* there: the shard is not written and the loop is left
SaveReconcileCacheSharded_Fail ==
    /\ cacheRun.pc = "save"
    /\ cacheRun.shard < EffectiveShardCount(cacheRun.shardCount)
    /\ cacheRun' = [cacheRun EXCEPT !.pc = "failed", !.err = TRUE]
    /\ UNCHANGED <<cacheStore, nonCacheVars>>

SaveReconcileCacheSharded_Nil ==
    /\ cacheRun.pc = "save"
    /\ cacheRun.shard >= EffectiveShardCount(cacheRun.shardCount)
    /\ cacheRun' = [cacheRun EXCEPT !.pc = "saved"]
    /\ UNCHANGED <<cacheStore, nonCacheVars>>

NextSaveFail ==
    \/ SaveReconcileCacheSharded_Shard
    \/ SaveReconcileCacheSharded_Fail
    \/ SaveReconcileCacheSharded_Nil

SpecSaveFail == InitSaveFail /\ [][NextSaveFail]_vars

\* shard i's partition of the saved map, as stored strings
NewPartition(i) ==
    LET N == cacheRun.shardCount
        M == cacheRun.data
    IN [k \in {x \in DOMAIN M : HashModN(x, N) = i} |->
           M[k].ResourceVersion \o <<"|">> \o FormatInt(M[k].UpdatedAtUnix)]

HoldsNewPartition(i) == cacheStore[i].exists /\ cacheStore[i].data = NewPartition(i)

SaveFailed == cacheRun # <<>> /\ cacheRun.pc = "failed" /\ "before" \in DOMAIN cacheRun

(***************************************************************************)
(* C27: when SaveReconcileCacheSharded fails or stops while writing one     *)
(* shard, every other shard holds its complete new partition after the      *)
(* call, and no shard ever holds a mixture of old and new entries.          *)
(***************************************************************************)
C27_OnlyFailedShardAffected ==
    /\ SaveFailed =>
          \A i \in 0..(cacheRun.shardCount - 1) : i # cacheRun.shard => HoldsNewPartition(i)
    /\ (cacheRun # <<>> /\ "before" \in DOMAIN cacheRun) =>
          \A i \in 0..(cacheRun.shardCount - 1) :
              cacheStore[i] = cacheRun.before[i] \/ HoldsNewPartition(i)

(***************************************************************************)
(* LoadReconcileCacheSharded with missing shards and a failing read         *)
(***************************************************************************)
InitLoadFail ==
    /\ IdleNonCache
    /\ \E place \in [CacheKeys -> Placements], missing \in SUBSET (0..1) :
          cacheStore = StoredShards(place, missing)
    /\ \E shardCount \in ShardCounts, now \in LoadTimes :
          cacheRun = [pc |-> "load", shardCount |-> shardCount, data |-> <<>>,
                      shard |-> 0, now |-> now, out |-> <<>>, err |-> FALSE,
                      readFailed |-> FALSE]

LoadReconcileCacheSharded_Fail_Partial ==
    /\ cacheRun.pc = "load"
    /\ cacheRun.shard < EffectiveShardCount(cacheRun.shardCount)
    /\ cacheRun' = [cacheRun EXCEPT !.pc = "done", !.err = TRUE, !.readFailed = TRUE]
    /\ UNCHANGED <<cacheStore, nonCacheVars>>

\* reader.Get of the current shard fails with an error other than NotFound:
\* return nil, err
LoadReconcileCacheSharded_Fail ==
    /\ cacheRun.pc = "load"
    /\ cacheRun.shard < EffectiveShardCount(cacheRun.shardCount)
    /\ cacheRun' = [cacheRun EXCEPT !.pc = "done", !.err = TRUE, !.out = <<>>,
                                    !.readFailed = TRUE]
    /\ UNCHANGED <<cacheStore, nonCacheVars>>

NextLoadFail ==
    \/ LoadReconcileCacheSharded_Shard
    \/ LoadReconcileCacheSharded_Fail
    \/ LoadReconcileCacheSharded_Return

SpecLoadFail == InitLoadFail /\ [][NextLoadFail]_vars

LoadReturned == cacheRun # <<>> /\ cacheRun.pc = "done" /\ "readFailed" \in DOMAIN cacheRun

(***************************************************************************)
(* C28: LoadReconcileCacheSharded takes a missing shard object as empty and *)
(* drops a malformed entry (not version|integer) without dropping any other *)
(* entry of the same or another shard, returning no error in both cases;    *)
(* any other read failure on a shard makes it return an error and no map.   *)
(***************************************************************************)
C28_LoadErrorsOnlyOnReadFailure ==
    LoadReturned =>
        IF cacheRun.readFailed
        THEN cacheRun.err /\ cacheRun.out = <<>>
        ELSE /\ ~cacheRun.err
             /\ \A i \in LoadedShards : \A k \in DOMAIN cacheStore[i].data :
                   LET raw == cacheStore[i].data[k]
                   IN IF ~IsVersionBarInteger(raw)
                      THEN k \notin DOMAIN cacheRun.out
                      ELSE TimestampOf(raw) >= cacheRun.now - ReconcileCacheTTL
                              => /\ k \in DOMAIN cacheRun.out
                                 /\ cacheRun.out[k].ResourceVersion = VersionOf(raw)

\* a missing shard and a malformed entry next to a kept one, no error
C28_Witness ==
    /\ LoadReturned
    /\ ~cacheRun.readFailed
    /\ ~cacheRun.err
    /\ cacheRun.shardCount = 2
    /\ ~cacheStore[1].exists
    /\ cacheStore[0].exists
    /\ DOMAIN cacheStore[0].data = CacheKeys
    /\ cacheStore[0].data[<<97>>] = <<"b", "a", "d">>
    /\ DOMAIN cacheRun.out = {<<98>>}

\* a read failure on the second shard after the first gave an entry
C28_FailureWitness ==
    /\ LoadReturned
    /\ cacheRun.readFailed
    /\ cacheRun.shard = 1
    /\ cacheRun.out = <<>>
    /\ \E k \in DOMAIN cacheStore[0].data :
          /\ IsVersionBarInteger(cacheStore[0].data[k])
          /\ TimestampOf(cacheStore[0].data[k]) >= cacheRun.now - ReconcileCacheTTL

(***************************************************************************)
(* The pre-flight of delete mode                                            *)
(***************************************************************************)
\* checkDeleteEligibility of a listed Ingress when its reads succeed
EligibleListed(item) ==
    checkDeleteEligibility(reRoutes, reGateways, item.name, item.obj, "ok").ok

PreflightErrors == {"check failed", "refusing to delete ingress"}

DeleteMode == reParams # <<>> /\ reParams.dangerouslyDeleteIngresses

\* one step of the pre-flight: nothing written, and it only goes on past an
\* Ingress whose check succeeded and answered eligible
PreflightStep ==
    (DeleteMode /\ reRun.pc = "preflight") =>
        /\ reStore' = reStore
        /\ reRun'.log = <<>>
        /\ reRun'.pc = "done" => reRun'.ret \in PreflightErrors
        /\ (reRun.idx <= Len(reRun.list) /\ reRun'.pc # "done") =>
              /\ EligibleListed(reRun.list[reRun.idx])
              /\ reRun'.pc = "preflight"
              /\ reRun'.idx = reRun.idx + 1

(***************************************************************************)
(* C29: in delete mode the pre-flight is all-or-nothing: when                *)
(* checkDeleteEligibility is false or fails for any listed Ingress, also one *)
(* that was never disabled, runReenabler returns an error and that run has   *)
(* deleted or modified no Ingress.                                          *)
(***************************************************************************)
C29_PreflightAllOrNothing ==
    /\ [][PreflightStep]_vars
    /\ [](DeleteMode =>
            /\ (reRun.pc = "loop" \/ (reRun.pc = "done" /\ reRun.ret = ""))
                  => \A i \in 1..Len(reRun.list) : EligibleListed(reRun.list[i])
            /\ (reRun.pc = "done" /\ reRun.ret \in PreflightErrors)
                  => (reRun.log = <<>> /\ ListItems(reStore) = reRun.list)
            /\ (reRun.pc \in {"preflight", "loop", "done"} /\ reRun.ret # "list failed"
                  /\ \E i \in 1..Len(reRun.list) : ~EligibleListed(reRun.list[i]))
                  => (reRun.log = <<>> /\ ListItems(reStore) = reRun.list
                                        /\ reRun.pc # "loop"))

\* refused because of an Ingress that was never disabled, while the other
\* listed Ingress was eligible for deletion
C29_Witness ==
    /\ DeleteMode
    /\ reRun.pc = "done"
    /\ reRun.ret = "refusing to delete ingress"
    /\ Len(reRun.list) = 2
    /\ EligibleListed(reRun.list[2])
    /\ reRun.list[1].obj.annotations[IngressDisabledAnnotation] = NoAnnotation
    /\ reRun.list[1].obj.className = "nginx"
    /\ ListItems(reStore) = reRun.list

\* the pre-flight stopped by a failed read of the second Ingress's routes
C29_CheckFailedWitness ==
    /\ DeleteMode
    /\ reRun.pc = "done"
    /\ reRun.ret = "check failed"
    /\ reRun.idx = 2
    /\ EligibleListed(reRun.list[1])

(***************************************************************************)
(* runReenabler in restore mode on an Ingress nobody disabled               *)
(***************************************************************************)
\* no shadow annotation and no disabled marker; any live class, hostname and
\* hostname-source
ActiveIngresses ==
    [className : {Nil, "nginx", DisabledIngressClassName},
     annotations :
        [disabled : {NoAnnotation},
         class : {NoAnnotation, "nginx", DisabledIngressClassName},
         origClassName : {NoAnnotation},
         origClass : {NoAnnotation},
         hostname : {NoAnnotation, "a.example.com"},
         hostnameSource : {NoAnnotation, "", "defined-hosts-only"},
         origHostname : {NoAnnotation},
         origHostnameSource : {NoAnnotation}]]

InitActive ==
    /\ IdleNonReenabler
    /\ reParams \in SweepParams
    /\ \E w \in ActiveIngresses, a \in SweepApi :
          reStore = [n \in IngressNames |->
                        IF n = "web" THEN [present |-> TRUE, obj |-> w]
                        ELSE [present |-> TRUE, obj |-> a]]
    /\ reRoutes = {[ingress |-> "web", managed |-> TRUE], [ingress |-> "api", managed |-> TRUE]}
    /\ reGateways = {}
    /\ reFilters = [crd |-> TRUE, objs |-> [n \in IngressNames |-> "managed"]]
    /\ reRun = [pc |-> "start", list |-> <<>>, idx |-> 1, ret |-> "", log |-> <<>>]

NextActive ==
    \/ \E io \in {"ok", "list fail"} : RunReenabler_List(io)
    \/ \E io \in {"ok", "update fail", "routes fail", "route delete fail", "filter fail"} :
          RunReenabler_Loop(io)
    \/ RunReenabler_Return

SpecActive == InitActive /\ [][NextActive]_vars

\* Active in both dimensions
ActiveBoth(ingress) ==
    /\ ingress.annotations[IngressDisabledAnnotation] = NoAnnotation
    /\ ingress.annotations[OriginalIngressClassNameAnnotation] = NoAnnotation
    /\ ingress.annotations[OriginalIngressClassAnnotation] = NoAnnotation
    /\ ingress.annotations[OriginalExternalDNSHostname] = NoAnnotation
    /\ ingress.annotations[OriginalExternalDNSIngressHostnameSource] = NoAnnotation

\* the log lines of the sweep about one Ingress (an Update, failed or not,
\* leaves one)
LogAbout(name) == SelectSeq(reRun.log, LAMBDA e : e[1] = name)

(***************************************************************************)
(* C30: the restore sweep never modifies an Ingress that is Active in both  *)
(* dimensions (no shadow annotation, no disabled marker): whatever live     *)
(* class, hostname and hostname-source annotations it carries, runReenabler *)
(* in restore mode issues no Update for it and leaves its annotations       *)
(* unchanged.                                                               *)
(***************************************************************************)
C30_ActiveIngressUntouched ==
    [][ActiveBoth(reStore["web"].obj) =>
          /\ reStore'["web"] = reStore["web"]
          /\ SelectSeq(reRun'.log, LAMBDA e : e[1] = "web") = LogAbout("web")]_vars

\* what holds: an Active Ingress with no live hostname-source is left alone
ActiveWithoutSourceUntouched ==
    [][(/\ ActiveBoth(reStore["web"].obj)
        /\ reStore["web"].obj.annotations[ExternalDNSIngressHostnameSource] = NoAnnotation) =>
          /\ reStore'["web"] = reStore["web"]
          /\ SelectSeq(reRun'.log, LAMBDA e : e[1] = "web") = LogAbout("web")]_vars
====
